---- MODULE Spec2Model ----
(***************************************************************************)
(* The pawprint backend: report ingestion, alert evaluation and the        *)
(* read-time aggregation queries of the catch-all API route, the public    *)
(* status route and the status page, over the relational store.            *)
(*                                                                         *)
(* Time is counted in minutes (the code works in milliseconds and only     *)
(* ever compares instants or adds whole minutes to them).  A column that   *)
(* is NULL in the store holds Null (numbers) or "null" (booleans, text).   *)
(***************************************************************************)
EXTENDS Integers, Sequences, FiniteSets, TLC

VARIABLES
  now,         \* the wall clock, Date.now(), in minutes
  workspaces,  \* table workspaces: id -> row
  readings,    \* table readings in insertion order: row id -> row
  invites,     \* table workspace_invites: token -> row
  resp,        \* the response to the request served last
  posted,      \* the webhook calls made while serving that request
  requests     \* the requests served statement by statement: id -> position

vars == <<now, workspaces, readings, invites, resp, posted, requests>>

-----------------------------------------------------------------------------
(* Bounds of the model *)

MaxReadings == 2
MaxNow == 2
MaxCost == 2
MaxRequests == 2

-----------------------------------------------------------------------------
(* Values *)

Null == 0 - 1
NullStr == "null"
WebhookUrl == "https://hooks.example/T1"

WorkspaceIds == {1, 2}
UserIds == {1, 2}
NoUser == 0
NoWorkspace == 0

\* api_key of workspace w; InvalidKey is the key of no workspace
KeyOf(w) == 100 + w
InvalidKey == 100

SqlBool == {"true", "false", NullStr}

\* JavaScript truthiness of the values the handlers test
TruthyBool(b) == b = "true"
TruthyNum(n) == n # Null /\ n # 0
TruthyText(s) == s # NullStr

\* alert_cost_threshold is a DECIMAL column, which the driver hands over as a
\* string (it is read through Number(...)): every non-NULL value is truthy
TruthyDecimal(d) == d # Null

Min(a, b) == IF a <= b THEN a ELSE b

-----------------------------------------------------------------------------
(* Requests *)

\* Authorization header: absent, a non-Bearer scheme, or Bearer <key>
NoHeader == [scheme |-> "none", key |-> 0]
BasicHeader == [scheme |-> "Basic", key |-> KeyOf(1)]
Bearer(k) == [scheme |-> "Bearer", key |-> k]

startsWithBearer(authHeader) == authHeader.scheme = "Bearer"

\* Request body of POST /v1/report: text that is no JSON, the JSON literal
\* null, or a payload object (timestamp, gateway.online, costs.today,
\* system.hostname; Null and "null" stand for an omitted field)
MalformedBody ==
  [kind |-> "malformed", timestamp |-> Null, online |-> NullStr, cost |-> Null,
   hostname |-> NullStr]
JsonNullBody ==
  [kind |-> "null", timestamp |-> Null, online |-> NullStr, cost |-> Null,
   hostname |-> NullStr]
PayloadFrom(ts, online, cost, hostname) ==
  [kind |-> "object", timestamp |-> ts, online |-> online, cost |-> cost,
   hostname |-> hostname]
\* A payload without system section
Payload(ts, online, cost) == PayloadFrom(ts, online, cost, NullStr)

\* Where the store fails while a report is served
Faults == {"none", "lookup", "insert", "window"}

-----------------------------------------------------------------------------
(* The store *)

\* slug of workspace w
SlugOf(w) == IF w = 1 THEN "ws-1" ELSE "ws-2"

WorkspaceRow(id, owner, threshold, minutes, url) ==
  [id |-> id, user_id |-> owner, api_key |-> KeyOf(id), slug |-> SlugOf(id),
   is_public |-> NullStr,
   alert_cost_threshold |-> threshold, alert_downtime_minutes |-> minutes,
   slack_webhook_url |-> url]

\* getWorkspaceFromKey falling back to the first workspace when no key matches
MutGetWorkspaceFromKey(apiKey) ==
  LET hit == {w \in WorkspaceIds : workspaces[w].api_key = apiKey}
  IN IF hit = {} THEN 1 ELSE CHOOSE w \in hit : TRUE

\* SELECT w.* FROM workspaces w JOIN users u ON w.user_id = u.id WHERE w.api_key = key
getWorkspaceFromKey(apiKey) ==
  LET hit == {w \in WorkspaceIds :
                /\ workspaces[w].api_key = apiKey
                /\ workspaces[w].user_id \in UserIds}
  IN IF hit = {} THEN NoWorkspace ELSE CHOOSE w \in hit : TRUE

\* Row ids of the readings of workspace w
RowsOf(rs, w) == {i \in 1..Len(rs) : rs[i].workspace_id = w}

\* Row ids of the readings of workspace w WHERE timestamp > cutoff
RowsSince(rs, w, cutoff) == {i \in RowsOf(rs, w) : rs[i].timestamp > cutoff}

\* The rows that ORDER BY timestamp DESC may put first (ties are in no order)
FirstByTimestampDesc(rs, rows) ==
  {i \in rows : \A j \in rows : rs[j].timestamp <= rs[i].timestamp}

-----------------------------------------------------------------------------
(* Responses *)

NoBody == <<>>

\* A query parameter: not given, or given with a text (a sequence of
\* characters)
NoParam == [given |-> FALSE, text |-> <<>>]
Param(text) == [given |-> TRUE, text |-> text]

\* resp is the last exchange: the operation asked for, the hours parameter
\* of a history request, the user a dashboard or history request was
\* resolved to (0: none), and the response
Idle == [seq |-> 0, op |-> "none", hours |-> NoParam, user |-> NoUser, status |-> 0,
         error |-> "", ws |-> NoWorkspace, fault |-> "none", body |-> NoBody]

\* NextResponse.json({error}, {status}): seq alternates so that two equal
\* responses in a row are still two responses
Answer(op, status, error, ws, fault) ==
  [seq |-> 1 - resp.seq, op |-> op, hours |-> NoParam, user |-> NoUser, status |-> status,
   error |-> error, ws |-> ws, fault |-> fault, body |-> NoBody]

\* NextResponse.json(body): a response that carries data of workspace ws
AnswerWith(op, ws, body) ==
  [seq |-> 1 - resp.seq, op |-> op, hours |-> NoParam, user |-> NoUser, status |-> 200,
   error |-> "", ws |-> ws, fault |-> "none", body |-> body]

Respond(op, status, error, ws, fault) == resp' = Answer(op, status, error, ws, fault)

RespondWith(op, ws, body) == resp' = AnswerWith(op, ws, body)

\* The requests that are served one statement at a time, none begun
ReqIds == 1..MaxRequests
NoRequests == [r \in ReqIds |-> [at |-> "idle"]]

\* A request is served in this step
Served == resp'.seq # resp.seq

-----------------------------------------------------------------------------
(* POST /v1/report *)

\* The INSERT without the workspace scope: every row lands in workspace 1
MutReadingRow(w, body) ==
  [workspace_id |-> 1,
   timestamp |-> IF body.timestamp # Null THEN body.timestamp ELSE now,
   gateway_online |-> body.online,
   cost_today |-> body.cost,
   system_hostname |-> body.hostname]

\* The row the INSERT of the report handler writes
ReadingRow(w, body) ==
  [workspace_id |-> w,
   timestamp |-> IF body.timestamp # Null THEN body.timestamp ELSE now,
   gateway_online |-> body.online,
   cost_today |-> body.cost,
   system_hostname |-> body.hostname]

\* The cost check with >= in place of >
MutCostExceeded(workspace, body) ==
  /\ TruthyDecimal(workspace.alert_cost_threshold)
  /\ body.cost # Null
  /\ body.cost >= workspace.alert_cost_threshold

\* workspace.alert_cost_threshold && payload.costs?.today > Number(threshold)
CostExceeded(workspace, body) ==
  /\ TruthyDecimal(workspace.alert_cost_threshold)
  /\ body.cost # Null
  /\ body.cost > workspace.alert_cost_threshold

\* The webhook calls of the cost check: fetch(...).catch(console.error), the
\* call succeeding or failing
CostPosts(workspace, body) ==
  IF CostExceeded(workspace, body) /\ TruthyText(workspace.slack_webhook_url)
  THEN {<<[kind |-> "cost", ws |-> workspace.id, ok |-> ok]>> : ok \in BOOLEAN}
  ELSE {<<>>}

\* The window query without its timestamp condition
MutRecentReadings(rs, workspace) == RowsOf(rs, workspace.id)

\* recentReadings: the rows of the downtime check's window
RecentReadings(rs, workspace) ==
  RowsSince(rs, workspace.id, now - workspace.alert_downtime_minutes)

\* The downtime check without the test for an online reading in the window
MutDowntimeDetected(rs, workspace, first) ==
  /\ RecentReadings(rs, workspace) # {}
  /\ ~TruthyBool(rs[first].gateway_online)

\* recentReadings.length > 0 && !recentReadings[0].gateway_online, and then
\* !recentReadings.some(r => r.gateway_online), with row `first` sorted first
DowntimeDetected(rs, workspace, first) ==
  LET recent == RecentReadings(rs, workspace) IN
  /\ recent # {}
  /\ ~TruthyBool(rs[first].gateway_online)
  /\ ~\E i \in recent : TruthyBool(rs[i].gateway_online)

\* The webhook calls of the downtime check
DowntimePosts(rs, workspace) ==
  LET recent == RecentReadings(rs, workspace) IN
  IF recent = {} THEN {<<>>}
  ELSE UNION {
         IF DowntimeDetected(rs, workspace, first) /\ TruthyText(workspace.slack_webhook_url)
         THEN {<<[kind |-> "downtime", ws |-> workspace.id, ok |-> ok]>> : ok \in BOOLEAN}
         ELSE {<<>>}
         : first \in FirstByTimestampDesc(rs, recent) }

\* A handler that goes on with whatever request.json() left behind
MutBodyParses(body) == TRUE

\* request.json() yields a payload the handler can read: the text is JSON
\* (else json() throws) and not the literal null (else p.system throws)
BodyParses(body) == body.kind = "object"

\* The fetch calls without .catch: a failed call throws
MutDispatchThrows(posts) == \E i \in 1..Len(posts) : ~posts[i].ok

\* Whether a failed webhook call throws into the handler's try block: both
\* fetch calls end in .catch(console.error), so none does
DispatchThrows(posts) == FALSE

\* An insert that overwrites the newest row
MutInsertReading(rs, row) ==
  IF rs = <<>> THEN <<row>> ELSE [rs EXCEPT ![Len(rs)] = row]

\* An insert that drops a reading when the workspace already has one with
\* the same timestamp
MutInsertOnce(rs, row) ==
  IF \E i \in 1..Len(rs) : /\ rs[i].workspace_id = row.workspace_id
                           /\ rs[i].timestamp = row.timestamp
  THEN rs ELSE Append(rs, row)

\* INSERT INTO readings: a new row, the rows there are left as they are
InsertReading(rs, row) == Append(rs, row)

\* export async function POST, path report
PostReport(authHeader, body, fault) ==
  /\ Len(readings) < MaxReadings
  /\ UNCHANGED <<now, workspaces, invites, requests>>
  /\ IF ~startsWithBearer(authHeader)
     THEN /\ Respond("report", 401, "Missing API key", NoWorkspace, "none")
          /\ posted' = <<>>
          /\ UNCHANGED readings
     ELSE IF fault = "lookup"
     THEN \* getWorkspaceFromKey throws outside the try block
          /\ Respond("report", 500, "Internal Server Error", NoWorkspace, "lookup")
          /\ posted' = <<>>
          /\ UNCHANGED readings
     ELSE IF getWorkspaceFromKey(authHeader.key) = NoWorkspace
     THEN /\ Respond("report", 401, "Invalid API key", NoWorkspace, "none")
          /\ posted' = <<>>
          /\ UNCHANGED readings
     ELSE LET workspace == workspaces[getWorkspaceFromKey(authHeader.key)]
              inserted == InsertReading(readings, ReadingRow(workspace.id, body))
          IN
          IF ~BodyParses(body)
          THEN /\ Respond("report", 400, "Invalid payload", workspace.id, "none")
               /\ posted' = <<>>
               /\ UNCHANGED readings
          ELSE IF fault = "insert"
          THEN /\ Respond("report", 400, "Invalid payload", workspace.id, "insert")
               /\ posted' = <<>>
               /\ UNCHANGED readings
          ELSE IF TruthyNum(workspace.alert_downtime_minutes) /\ fault = "window"
          THEN \* the row is in, the cost check is done, the window query throws
               /\ readings' = inserted
               /\ \E c \in CostPosts(workspace, body) : posted' = c
               /\ Respond("report", 400, "Invalid payload", workspace.id, "window")
          ELSE /\ readings' = inserted
               /\ \E c \in CostPosts(workspace, body) :
                    \E d \in (IF TruthyNum(workspace.alert_downtime_minutes)
                              THEN DowntimePosts(inserted, workspace)
                              ELSE {<<>>}) :
                       /\ posted' = c \o d
                       /\ IF DispatchThrows(c \o d)
                          THEN Respond("report", 400, "Invalid payload", workspace.id, "none")
                          ELSE Respond("report", 200, "", workspace.id, "none")

\* Time passes between requests
TickBy(minutes, horizon) ==
  /\ now + minutes <= horizon
  /\ now' = now + minutes
  /\ UNCHANGED <<workspaces, readings, invites, resp, posted, requests>>

Tick == TickBy(1, MaxNow)

-----------------------------------------------------------------------------
(* Ingestion: two workspaces, the first with both alerts configured *)

Costs == {Null} \cup 0..MaxCost
Timestamps == {Null} \cup 0..MaxNow
AuthHeaders == {NoHeader, BasicHeader} \cup {Bearer(k) : k \in {KeyOf(1), KeyOf(2), InvalidKey}}

ReportBodies ==
  {MalformedBody, JsonNullBody}
    \cup {Payload(ts, o, 1) : ts \in Timestamps, o \in {"true", "false"}}

Init ==
  /\ now = 0
  /\ workspaces = [w \in WorkspaceIds |->
                     IF w = 1 THEN WorkspaceRow(1, 1, 0, 1, WebhookUrl)
                     ELSE WorkspaceRow(w, w, Null, Null, NullStr)]
  /\ readings = <<>>
  /\ invites = <<>>
  /\ resp = Idle
  /\ posted = <<>>
  /\ requests = NoRequests

\* Reports without a usable credential
ReportUnauthenticated ==
  \E a \in AuthHeaders \ {Bearer(KeyOf(w)) : w \in WorkspaceIds},
     b \in {MalformedBody, Payload(Null, "false", 1)} :
       PostReport(a, b, "none")

\* Reports with the key of a workspace, the store answering every statement
ReportWithKey ==
  \E w \in WorkspaceIds, b \in ReportBodies : PostReport(Bearer(KeyOf(w)), b, "none")

\* Reports with the key of a workspace, the store failing at one statement
ReportStoreFault ==
  \E w \in WorkspaceIds, f \in Faults \ {"none"} :
     PostReport(Bearer(KeyOf(w)), Payload(Null, "false", 1), f)

Next == Tick \/ ReportUnauthenticated \/ ReportWithKey \/ ReportStoreFault

Spec == Init /\ [][Next]_vars

-----------------------------------------------------------------------------
(* GET /v1/dashboard: the query *)

\* SELECT * FROM readings WHERE workspace_id = w ORDER BY timestamp DESC
\* LIMIT 1: the row ids the query may return (none when w has no reading)
DashboardLatest(rs, w) == FirstByTimestampDesc(rs, RowsOf(rs, w))

-----------------------------------------------------------------------------
(* Claims on ingestion *)

ValidAuth(w) == Bearer(KeyOf(w))
ObjectBodies == {b \in ReportBodies : b.kind = "object"}
NewRow == Len(readings')

\* A report of workspace w is answered 200 in this step
Accepted(w) ==
  /\ Served /\ resp'.status = 200 /\ resp'.ws = w
  /\ \E b \in ObjectBodies : PostReport(ValidAuth(w), b, "none")

\* The step adds exactly one row, of workspace w, and touches no other row
InsertsOneFor(w) ==
  /\ Len(readings') = Len(readings) + 1
  /\ SubSeq(readings', 1, Len(readings)) = readings
  /\ readings'[NewRow].workspace_id = w

\* C1 as stated: every report answered 200 inserts exactly one new reading of
\* its workspace, and the dashboard query of that workspace, run right after,
\* returns that reading
C1_AsStated ==
  [][\A w \in WorkspaceIds :
       Accepted(w) => /\ InsertsOneFor(w)
                      /\ DashboardLatest(readings', w) = {NewRow}]_vars

\* C1: every report answered 200 inserts exactly one new reading of its
\* workspace (an identical earlier submission changes nothing to that); the
\* dashboard query run right after returns the readings of that workspace
\* with the greatest timestamp, which is the new reading alone when its
\* timestamp is later than that of every earlier reading of the workspace
C1_InsertsOneReading ==
  [][\A w \in WorkspaceIds :
       Accepted(w) =>
         /\ InsertsOneFor(w)
         /\ NewRow \in RowsOf(readings', w)
         /\ DashboardLatest(readings', w) # {}
         /\ \A i \in DashboardLatest(readings', w) :
              readings'[i].timestamp >= readings'[NewRow].timestamp
         /\ (\A i \in RowsOf(readings, w) :
               readings[i].timestamp < readings'[NewRow].timestamp)
            => DashboardLatest(readings', w) = {NewRow}]_vars

\* The same payload, carrying no timestamp, was accepted twice for one
\* workspace: two rows, and the dashboard's latest is the later one
C1_Witness ==
  /\ resp.op = "report" /\ resp.status = 200
  /\ Len(readings) = 2
  /\ RowsOf(readings, resp.ws) = {1, 2}
  /\ readings[1].gateway_online = readings[2].gateway_online
  /\ readings[1].cost_today = readings[2].cost_today
  /\ readings[1].timestamp < readings[2].timestamp
  /\ DashboardLatest(readings, resp.ws) = {2}

\* C5: a report whose reading was inserted, the store answering every
\* statement, is answered 200 whether its webhook calls succeed or fail
C5_DispatchFailureSwallowed ==
  [][(Served /\ resp'.op = "report" /\ readings' # readings /\ resp'.fault = "none")
       => resp'.status = 200]_vars

\* A report was answered 200 although both of its webhook calls failed
C5_Witness ==
  /\ resp.op = "report" /\ resp.status = 200
  /\ Len(posted) = 2
  /\ \A i \in 1..Len(posted) : ~posted[i].ok

\* C6: a report without Authorization header, with a non-Bearer one, or with
\* a key no workspace has, is answered 401 and leaves the readings as they are
C6_Unauthenticated401 ==
  [][\A a \in {NoHeader, BasicHeader, Bearer(InvalidKey)},
        b \in {MalformedBody, Payload(Null, "false", 1)} :
       PostReport(a, b, "none")
         => resp'.status = 401 /\ readings' = readings /\ posted' = <<>>]_vars

\* An unknown key was refused while the store held a reading
C6_Witness ==
  /\ resp.op = "report" /\ resp.status = 401 /\ resp.error = "Invalid API key"
  /\ Len(readings) > 0

\* C7: a report with a valid key and a body that is no JSON is answered 400,
\* inserts no reading and calls no webhook
C7_MalformedBody400 ==
  [][\A w \in WorkspaceIds :
       PostReport(ValidAuth(w), MalformedBody, "none")
         => resp'.status = 400 /\ readings' = readings /\ posted' = <<>>]_vars

\* A malformed body was refused for the workspace with both alerts configured,
\* whose window holds an offline reading
C7_Witness ==
  /\ resp.op = "report" /\ resp.status = 400 /\ resp.fault = "none" /\ resp.ws = 1
  /\ \E i \in RowsOf(readings, 1) :
       readings[i].gateway_online = "false" /\ readings[i].timestamp = now
  /\ posted = <<>>

-----------------------------------------------------------------------------
(* Cost alerts: the first workspace under every threshold, with and without
   a webhook; reports differ in costs.today *)

Thresholds == {Null} \cup 0..MaxCost
CostBodies == {Payload(Null, "true", c) : c \in Costs}

InitCost ==
  /\ now = 0
  /\ \E t \in Thresholds, url \in {NullStr, WebhookUrl} :
       workspaces = [w \in WorkspaceIds |->
                       IF w = 1 THEN WorkspaceRow(1, 1, t, Null, url)
                       ELSE WorkspaceRow(w, w, 1, Null, WebhookUrl)]
  /\ readings = <<>>
  /\ invites = <<>>
  /\ resp = Idle
  /\ posted = <<>>
  /\ requests = NoRequests

ReportCost == \E w \in WorkspaceIds, b \in CostBodies : PostReport(ValidAuth(w), b, "none")

NextCost == Tick \/ ReportCost

SpecCost == InitCost /\ [][NextCost]_vars

\* The webhook calls of one kind among posts
PostsOfKind(posts, kind) == {i \in 1..Len(posts) : posts[i].kind = kind}

\* C2: for a workspace with threshold t and a webhook URL, a report that is
\* inserted with costs.today = c calls the webhook with one cost alert when
\* c > t and with none otherwise, whatever readings the store already holds
C2_CostAlertIffAbove ==
  [][\A w \in WorkspaceIds, b \in CostBodies :
       ( /\ PostReport(ValidAuth(w), b, "none")
         /\ readings' # readings
         /\ workspaces[w].alert_cost_threshold # Null
         /\ workspaces[w].slack_webhook_url # NullStr )
       => Cardinality(PostsOfKind(posted', "cost")) =
            IF b.cost # Null /\ b.cost > workspaces[w].alert_cost_threshold
            THEN 1 ELSE 0]_vars

\* A cost alert went out for the first workspace although an earlier reading
\* of it was already above the threshold
C2_Witness ==
  /\ resp.op = "report" /\ resp.status = 200 /\ resp.ws = 1
  /\ PostsOfKind(posted, "cost") # {}
  /\ RowsOf(readings, 1) = {1, 2}
  /\ \A i \in {1, 2} : readings[i].cost_today > workspaces[1].alert_cost_threshold

-----------------------------------------------------------------------------
(* Downtime alerts: the first workspace under every alert_downtime_minutes;
   reports differ in timestamp and gateway.online *)

DowntimeMinutes == {Null} \cup 0..MaxNow
DowntimeBodies == {Payload(ts, o, Null) : ts \in Timestamps, o \in SqlBool}

InitDowntime ==
  /\ now = 0
  /\ \E n \in DowntimeMinutes :
       workspaces = [w \in WorkspaceIds |->
                       IF w = 1 THEN WorkspaceRow(1, 1, Null, n, WebhookUrl)
                       ELSE WorkspaceRow(w, w, Null, 1, WebhookUrl)]
  /\ readings = <<>>
  /\ invites = <<>>
  /\ resp = Idle
  /\ posted = <<>>
  /\ requests = NoRequests

ReportDowntime ==
  \E w \in WorkspaceIds, b \in DowntimeBodies : PostReport(ValidAuth(w), b, "none")

NextDowntime == Tick \/ ReportDowntime

SpecDowntime == InitDowntime /\ [][NextDowntime]_vars

\* The readings of workspace w stamped inside the trailing n-minute window
InWindow(rs, w, n) ==
  {i \in 1..Len(rs) : rs[i].workspace_id = w /\ rs[i].timestamp > now - n}

\* The readings of workspace w that no other reading of w is later than
MostRecent(rs, w) ==
  {i \in 1..Len(rs) :
     /\ rs[i].workspace_id = w
     /\ \A j \in 1..Len(rs) :
          rs[j].workspace_id = w => rs[j].timestamp <= rs[i].timestamp}

Offline(r) == r.gateway_online # "true"

\* A report of workspace w, which has alert_downtime_minutes set, is inserted
InsertedWithDowntime(w) ==
  /\ \E b \in DowntimeBodies : PostReport(ValidAuth(w), b, "none")
  /\ readings' # readings
  /\ workspaces[w].alert_downtime_minutes # Null

\* C3 as stated, for windows of a minute and more: the downtime alert goes
\* out exactly when the most recent reading of the workspace is offline and
\* no reading in the window is online
C3_AsStated ==
  [][\A w \in WorkspaceIds :
       (InsertedWithDowntime(w) /\ workspaces[w].alert_downtime_minutes >= 1) =>
         ( PostsOfKind(posted', "downtime") # {}
           <=> /\ \A i \in MostRecent(readings', w) : Offline(readings'[i])
               /\ \A i \in InWindow(readings', w, workspaces[w].alert_downtime_minutes) :
                    Offline(readings'[i]) )]_vars

\* C3: the downtime alert goes out exactly when alert_downtime_minutes is at
\* least 1, the window holds a reading of the workspace, the most recent
\* reading in the window is offline and no reading in the window is online
C3_DowntimeAlertWindow ==
  [][\A w \in WorkspaceIds :
       InsertedWithDowntime(w) =>
         LET n == workspaces[w].alert_downtime_minutes
             window == InWindow(readings', w, n)
         IN ( Cardinality(PostsOfKind(posted', "downtime")) = 1
              <=> /\ n >= 1
                  /\ window # {}
                  /\ \A i \in window :
                       (\A j \in window : readings'[j].timestamp <= readings'[i].timestamp)
                          => Offline(readings'[i])
                  /\ \A i \in window : Offline(readings'[i]) )
            /\ Cardinality(PostsOfKind(posted', "downtime")) <= 1]_vars

\* A downtime alert went out for the first workspace: its window holds the
\* offline reading just inserted, an online reading of it lies before the
\* window
C3_Witness ==
  /\ resp.op = "report" /\ resp.status = 200 /\ resp.ws = 1
  /\ PostsOfKind(posted, "downtime") # {}
  /\ workspaces[1].alert_downtime_minutes = 1
  /\ \E i, j \in RowsOf(readings, 1) :
       /\ readings[i].gateway_online = "true"
       /\ readings[i].timestamp <= now - 1
       /\ readings[j].gateway_online = "false"
       /\ readings[j].timestamp = now

-----------------------------------------------------------------------------
(* The downtime scenario: reports stamped with their submission time, one
   every ScenarioGap minutes, under a short and a long alert window *)

ScenarioGap == 11
ShortDowntime == 5
LongDowntime == 15

ScenarioBodies == {Payload(Null, o, Null) : o \in SqlBool}

InitScenario ==
  /\ now = 0
  /\ \E n \in {ShortDowntime, LongDowntime} :
       workspaces = [w \in WorkspaceIds |->
                       IF w = 1 THEN WorkspaceRow(1, 1, Null, n, WebhookUrl)
                       ELSE WorkspaceRow(w, w, Null, Null, NullStr)]
  /\ readings = <<>>
  /\ invites = <<>>
  /\ resp = Idle
  /\ posted = <<>>
  /\ requests = NoRequests

TickGap == TickBy(ScenarioGap, ScenarioGap * MaxReadings)

ReportScenario ==
  \E w \in WorkspaceIds, b \in ScenarioBodies : PostReport(ValidAuth(w), b, "none")

NextScenario == TickGap \/ ReportScenario

SpecScenario == InitScenario /\ [][NextScenario]_vars

\* The first workspace's second report, ScenarioGap minutes after its first,
\* is inserted in this step; first is the row of the first report
SecondReport(first, b) ==
  /\ PostReport(ValidAuth(1), b, "none")
  /\ readings' # readings
  /\ RowsOf(readings, 1) = {first}
  /\ readings[first].timestamp = now - ScenarioGap

\* C4 as stated: of two reports 11 minutes apart, the second triggers a
\* downtime alert under alert_downtime_minutes = 5 and none under 15
C4_AsStated ==
  [][\A first \in 1..MaxReadings, b \in ScenarioBodies :
       SecondReport(first, b) =>
         ( PostsOfKind(posted', "downtime") # {}
           <=> workspaces[1].alert_downtime_minutes = ShortDowntime )]_vars

\* C4: of two reports 11 minutes apart, the first online and the second not,
\* the second triggers a downtime alert under alert_downtime_minutes = 5 and
\* none under 15
C4_DowntimeScenario ==
  [][\A first \in 1..MaxReadings, b \in ScenarioBodies :
       ( /\ SecondReport(first, b)
         /\ readings[first].gateway_online = "true"
         /\ b.online # "true" )
       => ( Cardinality(PostsOfKind(posted', "downtime")) = 1
            <=> workspaces[1].alert_downtime_minutes = ShortDowntime )]_vars

\* Under the short window the offline second report, 11 minutes after the
\* online first, has triggered the downtime alert
C4_Witness ==
  /\ workspaces[1].alert_downtime_minutes = ShortDowntime
  /\ resp.op = "report" /\ resp.status = 200 /\ resp.ws = 1
  /\ \E i, j \in 1..Len(readings) :
       /\ RowsOf(readings, 1) = {i, j}
       /\ readings[i].gateway_online = "true"
       /\ readings[j].gateway_online = "false"
       /\ readings[j].timestamp = readings[i].timestamp + ScenarioGap
       /\ readings[j].timestamp = now
  /\ PostsOfKind(posted, "downtime") # {}

----------------------------------------------------------------------------
\* Public status: GET /v1/status/<slug> and the status page

\* 24 * 60 minutes
DayMinutes == 24 * 60
\* The 24h, 7d and 30d windows, in days
WindowDays == <<1, 7, 30>>

\* Math.round(online / total * 100) for total > 0: the nearest integer,
\* halves upwards
RoundPercent(online, total) == (200 * online + total) \div (2 * total)

\* Math.round's result on 0 / 0
NaN == 0 - 2

\* SELECT COUNT(*) as total, SUM(CASE WHEN gateway_online ... THEN 1 ELSE 0 END)
\* as online ... WHERE workspace_id = w AND timestamp > cutoff; SUM over no
\* row is NULL
UptimeRow(rs, w, cutoff) ==
  LET rows == RowsSince(rs, w, cutoff)
      up == {i \in rows : TruthyBool(rs[i].gateway_online)}
  IN [total |-> Cardinality(rows),
      online |-> IF rows = {} THEN Null ELSE Cardinality(up)]

\* the counts of window k at time t
WindowRow(rs, w, t, k) == UptimeRow(rs, w, t - WindowDays[k] * DayMinutes)

\* calcUptime of the status route
calcUptime(row) ==
  IF row.total > 0
  THEN RoundPercent(IF row.online = Null THEN 0 ELSE row.online,
                    IF row.total = 0 THEN 1 ELSE row.total)
  ELSE Null

\* calcUptime of the status page: COUNT(*) arrives as a string, so "0" is
\* neither falsy nor === 0 and the quotient is null / "0"
pageCalcUptime(row) ==
  IF row.total = 0 THEN NaN ELSE RoundPercent(row.online, row.total)

\* x || 0
OrZero(x) == IF x \in {Null, NaN, 0} THEN 0 ELSE x

RECURSIVE SumCost(_, _)
\* SUM(cost_today) over the rows: NULL costs are skipped, NULL if none is left
SumCost(rs, rows) ==
  IF rows = {} THEN Null
  ELSE LET i == CHOOSE j \in rows : TRUE
           rest == SumCost(rs, rows \ {i})
       IN IF rs[i].cost_today = Null THEN rest
          ELSE IF rest = Null THEN rs[i].cost_today
          ELSE rest + rs[i].cost_today

\* ORDER BY w.id LIMIT 1
LowestId(ws) == CHOOSE w \in ws : \A v \in ws : w <= v

\* LOWER(text)
Lower(t) == IF t = "HOST-A" THEN "host-a" ELSE t

\* SELECT ... FROM workspaces w WHERE w.slug = slug
WorkspacesBySlug(slug) == {w \in WorkspaceIds : workspaces[w].slug = slug}

\* SELECT DISTINCT w... JOIN readings r ON r.workspace_id = w.id
\* WHERE LOWER(r.system_hostname) = LOWER(slug)
WorkspacesByHostname(slug) ==
  {w \in WorkspaceIds :
     \E i \in RowsOf(readings, w) :
        /\ readings[i].system_hostname # NullStr
        /\ Lower(readings[i].system_hostname) = Lower(slug)}

\* latest[0]?.gateway_online ? 'online' : 'offline'
StatusOf(rs, latest) ==
  IF latest # 0 /\ TruthyBool(rs[latest].gateway_online) THEN "online" ELSE "offline"

\* GET /v1/status/<slug> (status route)
GetStatus(slug) ==
  /\ UNCHANGED <<now, workspaces, readings, invites, posted, requests>>
  /\ IF slug = "" THEN Respond("status", 400, "Slug required", NoWorkspace, "none")
     ELSE IF WorkspacesBySlug(slug) = {}
     THEN Respond("status", 404, "Status page not found", NoWorkspace, "none")
     ELSE \E w \in WorkspacesBySlug(slug) :
          \E latest \in (IF RowsOf(readings, w) = {} THEN {0}
                         ELSE FirstByTimestampDesc(readings, RowsOf(readings, w))) :
            LET day == RowsSince(readings, w, now - DayMinutes)
                cost == SumCost(readings, day)
            IN RespondWith("status", w,
                 [status |-> StatusOf(readings, latest),
                  uptime |-> [k \in 1..3 |-> calcUptime(WindowRow(readings, w, now, k))],
                  lastCheck |-> IF latest = 0 THEN Null ELSE readings[latest].timestamp,
                  cost24h |-> IF cost = Null THEN 0 ELSE cost,
                  incidents |-> {i \in day : ~TruthyBool(readings[i].gateway_online)}])

\* getStatus(slug) of the status page
getStatus(slug) ==
  /\ UNCHANGED <<now, workspaces, readings, invites, posted, requests>>
  /\ LET result == IF WorkspacesBySlug(slug) # {} THEN WorkspacesBySlug(slug)
                   ELSE IF WorkspacesByHostname(slug) # {}
                   THEN {LowestId(WorkspacesByHostname(slug))}
                   ELSE {}
     IN IF result = {}
        THEN Respond("page", 200, "Status page not found", NoWorkspace, "none")
        ELSE \E w \in result :
          IF workspaces[w].is_public = "false"
          THEN Respond("page", 200, "private", w, "none")
          ELSE IF RowsOf(readings, w) = {}
          THEN RespondWith("page", w, [status |-> "no_data"])
          ELSE \E r \in FirstByTimestampDesc(readings, RowsOf(readings, w)) :
            RespondWith("page", w,
              [status |-> StatusOf(readings, r),
               uptime |-> [k \in 1..3 |->
                             OrZero(pageCalcUptime(WindowRow(readings, w, now, k)))],
               lastCheck |-> readings[r].timestamp,
               hostname |-> readings[r].system_hostname])

----------------------------------------------------------------------------
\* Specification of the public status: reports stamped now or 1, 7 or 30
\* days back, and the two status queries

StatusBodies ==
  {PayloadFrom(now - d * DayMinutes, o, 1, NullStr) :
     d \in {0, 1, 7, 30}, o \in {"true", "false"}}
  \cup {PayloadFrom(Null, "true", 1, "host-a")}

Slugs == {"", "ws-1", "ws-2", "nobody", "HOST-A"}

InitStatus ==
  /\ now = 0
  /\ workspaces =
       [w \in WorkspaceIds |->
          [WorkspaceRow(w, w, Null, Null, NullStr)
             EXCEPT !.is_public = IF w = 1 THEN NullStr ELSE "false"]]
  /\ readings = <<>>
  /\ invites = <<>>
  /\ resp = Idle
  /\ posted = <<>>
  /\ requests = NoRequests

NextStatus ==
  \/ \E w \in WorkspaceIds : \E b \in StatusBodies : PostReport(ValidAuth(w), b, "none")
  \/ \E slug \in Slugs : GetStatus(slug)
  \/ \E slug \in Slugs : getStatus(slug)

SpecStatus == InitStatus /\ [][NextStatus]_vars

\* the step answers a status query with uptime figures
ServedUptime(op) ==
  /\ Served
  /\ resp'.op = op
  /\ resp'.status = 200
  /\ resp'.error = ""
  /\ resp'.body.status # "no_data"

\* every returned figure is an integer of 0..100, or null, and it is null
\* exactly when the window holds no reading of the workspace
UptimeAsSpecified ==
  \A k \in 1..3 :
    LET u == resp'.body.uptime[k]
        n == WindowRow(readings, resp'.ws, now, k).total
    IN /\ u = Null \/ u \in 0..100
       /\ u = Null <=> n = 0

\* C8: for each of the 24h, 7d and 30d windows and every store content, the
\* uptime percentage returned for a workspace's status (by the status route
\* and by the status page) is an integer in 0..100, and it is null exactly
\* when the window contains no reading of that workspace
C8_AsStated ==
  [][(ServedUptime("status") \/ ServedUptime("page")) => UptimeAsSpecified]_vars

\* C8, status route only: the figures of GET /v1/status/<slug> are as specified
C8_RouteUptime == [][ServedUptime("status") => UptimeAsSpecified]_vars

\* C8, status page only: a figure of the page is 0 exactly when its window
\* holds no online reading, be the window empty or not
C8_PageUptimeZero ==
  [][ServedUptime("page") =>
       \A k \in 1..3 :
         LET row == WindowRow(readings, resp'.ws, now, k)
         IN /\ resp'.body.uptime[k] \in 0..100
            /\ resp'.body.uptime[k] = 0 <=> (row.total = 0 \/ row.online = 0)]_vars

\* the page reports 0 for an empty 24h window while the route reports null
C8_Witness ==
  /\ resp.op = "page"
  /\ resp.status = 200
  /\ resp.error = ""
  /\ resp.body.status # "no_data"
  /\ resp.body.uptime[1] = 0
  /\ WindowRow(readings, resp.ws, now, 1).total = 0
  /\ calcUptime(WindowRow(readings, resp.ws, now, 1)) = Null

----------------------------------------------------------------------------
\* GET /v1/history

Digits == <<"0", "1", "2", "3", "4", "5", "6", "7", "8", "9">>
IsDigit(c) == \E d \in 1..10 : Digits[d] = c
DigitValue(c) == (CHOOSE d \in 1..10 : Digits[d] = c) - 1

RECURSIVE LeadingDigits(_, _, _)
\* the digits at the front of text from position i on, read as a decimal
LeadingDigits(text, i, acc) ==
  IF i > Len(text) \/ ~IsDigit(text[i]) THEN acc
  ELSE LeadingDigits(text, i + 1, 10 * acc + DigitValue(text[i]))

RECURSIVE SkipBlanks(_, _)
SkipBlanks(text, i) ==
  IF i <= Len(text) /\ text[i] = " " THEN SkipBlanks(text, i + 1) ELSE i

\* parseInt(text): blanks, a sign, then digits up to the first other
\* character; NaN when there is no digit
parseInt(text) ==
  LET i == SkipBlanks(text, 1)
      signed == i <= Len(text) /\ text[i] \in {"-", "+"}
      j == IF signed THEN i + 1 ELSE i
  IN IF j > Len(text) \/ ~IsDigit(text[j]) THEN [nan |-> TRUE, value |-> 0]
     ELSE [nan |-> FALSE,
           value |-> IF signed /\ text[i] = "-" THEN 0 - LeadingDigits(text, j, 0)
                     ELSE LeadingDigits(text, j, 0)]

HistoryCap == 1000
PerHour == 12
DefaultHours == 24

MutHistoryLimit(hoursParam) ==
  LET hours == IF hoursParam.given /\ hoursParam.text # <<>>
               THEN parseInt(hoursParam.text)
               ELSE [nan |-> FALSE, value |-> DefaultHours]
  IN [nan |-> hours.nan, value |-> hours.value * PerHour]
\* hours = hoursParam ? parseInt(hoursParam) : 24;
\* limit = Math.min(Math.floor(hours * 12), 1000)
HistoryLimit(hoursParam) ==
  LET hours == IF hoursParam.given /\ hoursParam.text # <<>>
               THEN parseInt(hoursParam.text)
               ELSE [nan |-> FALSE, value |-> DefaultHours]
  IN [nan |-> hours.nan, value |-> Min(hours.value * PerHour, HistoryCap)]

\* Rows of equal timestamp come in an order the store chooses: insertion
\* order or its reverse
TieOrders == {"asc", "desc"}

\* An ordering that leaves the rows as the scan found them
MutByTimestampDesc(rs, ids, times) == ids

RECURSIVE ByTimestampDesc(_, _, _)
\* ids ordered by timestamp, latest first, rows of one timestamp in the order
\* they have in ids; times are the timestamps still to be placed
ByTimestampDesc(rs, ids, times) ==
  IF times = {} THEN <<>>
  ELSE LET t == CHOOSE u \in times : \A v \in times : u >= v
       IN SelectSeq(ids, LAMBDA i : rs[i].timestamp = t)
            \o ByTimestampDesc(rs, ids, times \ {t})

\* SELECT * FROM readings WHERE workspace_id = w ORDER BY timestamp DESC
\* LIMIT limit, as the sequence of the rows' positions in the store
SelectHistory(rs, w, limit, tie) ==
  LET n == Len(rs)
      scan == IF tie = "asc" THEN [i \in 1..n |-> i] ELSE [i \in 1..n |-> n + 1 - i]
      ids == SelectSeq(scan, LAMBDA i : rs[i].workspace_id = w)
      times == {rs[i].timestamp : i \in RowsOf(rs, w)}
      ordered == ByTimestampDesc(rs, ids, times)
  IN SubSeq(ordered, 1, Min(limit, Len(ordered)))

\* A session of a user without a row in users
Stranger == 3
Sessions == {NoUser} \cup UserIds \cup {Stranger}

\* SELECT id FROM users WHERE email = session.user.email
SessionUserId(session) == IF session \in UserIds THEN session ELSE NoUser

\* The caller of a GET: the workspace of its key and the user of its key or,
\* before that, of its session
ResolveCaller(authHeader, sessionUser) ==
  LET w == IF startsWithBearer(authHeader)
           THEN getWorkspaceFromKey(authHeader.key) ELSE NoWorkspace
  IN [workspaceId |-> w,
      userId |-> IF SessionUserId(sessionUser) # NoUser THEN SessionUserId(sessionUser)
                 ELSE IF w # NoWorkspace THEN workspaces[w].user_id
                 ELSE NoUser]

\* The ownership check that lets every user through
MutOwns(userId, w) == w \in WorkspaceIds

\* SELECT id FROM workspaces WHERE id = w AND user_id = userId finds a row
Owns(userId, w) == w \in WorkspaceIds /\ workspaces[w].user_id = userId

\* The workspaces a dashboard or history request may address: workspace_id
\* if given (Null: not given), else a workspace of the user, else the
\* workspace of the key; 0 stands for none
TargetWorkspaces(caller, wsId) ==
  IF wsId # Null THEN {wsId}
  ELSE IF caller.userId # NoUser
          /\ \E w \in WorkspaceIds : workspaces[w].user_id = caller.userId
  THEN {w \in WorkspaceIds : workspaces[w].user_id = caller.userId}
  ELSE {caller.workspaceId}

\* GET /v1/history?workspace_id=..&hours=..
GetHistory(authHeader, sessionUser, wsId, hoursParam) ==
  /\ UNCHANGED <<now, workspaces, readings, invites, posted, requests>>
  /\ LET caller == ResolveCaller(authHeader, sessionUser)
         Asked(answer) ==
           resp' = [answer EXCEPT !.hours = hoursParam, !.user = caller.userId]
     IN \E w \in TargetWorkspaces(caller, wsId) :
          IF w = NoWorkspace
          THEN Asked(Answer("history", 400, "Workspace required", NoWorkspace, "none"))
          ELSE IF caller.userId # NoUser /\ ~Owns(caller.userId, w)
          THEN Asked(Answer("history", 403, "Forbidden", w, "none"))
          ELSE LET limit == HistoryLimit(hoursParam)
               IN IF limit.nan \/ limit.value < 0
                  THEN Asked(Answer("history", 500, "Internal Server Error", w, "store"))
                  ELSE \E tie \in TieOrders :
                         Asked(AnswerWith("history", w,
                           [history |-> SelectHistory(readings, w, limit.value, tie)]))

----------------------------------------------------------------------------
\* Specification of the history query: a backlog of readings of workspace
\* 1, further reports, and history requests

MaxStore == 1001

\* n readings of workspace w, submitted one by one
Backlog(n, w) ==
  [i \in 1..n |-> ReadingRow(w, Payload(i % (MaxNow + 1), "true", 1))]

\* What a client may pass as hours, with twelve times the number it denotes
\* (valued: it denotes a number)
HoursRequests ==
  {[param |-> NoParam, valued |-> TRUE, times12 |-> DefaultHours * PerHour],
   [param |-> Param(<<>>), valued |-> FALSE, times12 |-> 0],
   [param |-> Param(<<"0">>), valued |-> TRUE, times12 |-> 0],
   [param |-> Param(<<"1">>), valued |-> TRUE, times12 |-> 12],
   [param |-> Param(<<"1", ".", "5">>), valued |-> TRUE, times12 |-> 18],
   [param |-> Param(<<"1", "6", "8">>), valued |-> TRUE, times12 |-> 2016],
   [param |-> Param(<<"-", "1">>), valued |-> TRUE, times12 |-> 0 - 12],
   [param |-> Param(<<"a">>), valued |-> FALSE, times12 |-> 0]}

InitHistory ==
  /\ now = MaxNow
  /\ workspaces = [w \in WorkspaceIds |-> WorkspaceRow(w, w, Null, Null, NullStr)]
  /\ \E n \in {0, PerHour + 1, MaxStore} : readings = Backlog(n, 1)
  /\ invites = <<>>
  /\ resp = Idle
  /\ posted = <<>>
  /\ requests = NoRequests

NextHistory ==
  \/ \E w \in WorkspaceIds : \E o \in {"true", "false"} :
       PostReport(ValidAuth(w), Payload(Null, o, 1), "none")
  \/ \E authHeader \in {NoHeader, Bearer(KeyOf(1))} :
     \E session \in {NoUser} \cup UserIds :
     \E wsId \in {Null, 0} \cup WorkspaceIds :
     \E h \in HoursRequests :
       GetHistory(authHeader, session, wsId, h.param)

SpecHistory == InitHistory /\ [][NextHistory]_vars

\* min(hours * 12, 1000) for the number the request denotes
HistoryBound(h) == Min(h.times12, HistoryCap)

\* the number of rows the answer carries
RowsReturned == IF resp'.status = 200 THEN Len(resp'.body.history) ELSE 0

\* C9: for every requested hours value and every store content, a history
\* query returns at most min(hours * 12, 1000) rows, hours being 24 when the
\* parameter is absent (and no row where that number is negative)
C9_HistoryLimit ==
  [][(Served /\ resp'.op = "history") =>
       \A h \in HoursRequests :
         (h.valued /\ h.param = resp'.hours) =>
            \/ RowsReturned <= HistoryBound(h)
            \/ HistoryBound(h) < 0 /\ RowsReturned = 0]_vars

\* a workspace with more than 1000 readings was asked for and the answer
\* stops at 1000 rows
C9_Witness ==
  /\ resp.op = "history"
  /\ resp.status = 200
  /\ resp.hours = Param(<<"1", "6", "8">>)
  /\ Len(resp.body.history) = HistoryCap
  /\ Cardinality(RowsOf(readings, resp.ws)) > HistoryCap

----------------------------------------------------------------------------
\* Invites: POST /v1/workspace/invite and /v1/invite/accept

MaxInvites == 1
MaxDays == 2

\* 'inv_' + randomUUID(): the token of the n-th invite is n; 0 is no token
NoToken == 0

\* The body of an accept request: one that cannot be read, or an object
\* with a token or without
UnreadableBody == [kind |-> "unreadable", token |-> NoToken]
TokenBody(t) == [kind |-> "object", token |-> t]

\* SELECT wi.* FROM workspace_invites wi JOIN workspaces w ... WHERE wi.token = token
InvitesByToken(token) ==
  {i \in 1..Len(invites) : invites[i].token = token /\ invites[i].workspace_id \in WorkspaceIds}

MutInviteUsed(invite) == FALSE
\* if (invite.used_at)
InviteUsed(invite) == invite.used_at # Null

MutInviteExpired(invite) == FALSE
\* new Date(invite.expires_at) < new Date()
InviteExpired(invite) == invite.expires_at < now

\* POST /v1/workspace/invite {workspaceId}
CreateInvite(session, workspaceId) ==
  /\ Len(invites) < MaxInvites
  /\ UNCHANGED <<now, workspaces, readings, posted, requests>>
  /\ LET userId == SessionUserId(session)
     IN IF userId = NoUser
        THEN /\ Respond("invite", 401, "Unauthorized", NoWorkspace, "none")
             /\ UNCHANGED invites
        ELSE IF workspaceId = NoWorkspace
        THEN /\ Respond("invite", 400, "Workspace ID required", NoWorkspace, "none")
             /\ UNCHANGED invites
        ELSE IF ~Owns(userId, workspaceId)
        THEN /\ Respond("invite", 403, "Forbidden", workspaceId, "none")
             /\ UNCHANGED invites
        ELSE LET token == Len(invites) + 1
                 expiresAt == now + DayMinutes
             IN /\ invites' = Append(invites,
                       [token |-> token, workspace_id |-> workspaceId,
                        expires_at |-> expiresAt, used_at |-> Null])
                /\ RespondWith("invite", workspaceId,
                       [token |-> token, expiresAt |-> expiresAt])

\* /v1/invite/accept {token}: the branch of the GET export that reads the
\* token from the request body
AcceptInvite(session, body) ==
  /\ UNCHANGED <<now, readings, posted, requests>>
  /\ IF session = NoUser
     THEN /\ Respond("accept", 401, "Must be logged in to accept invite", NoWorkspace, "none")
          /\ UNCHANGED <<workspaces, invites>>
     ELSE IF body.kind = "unreadable"
     THEN /\ Respond("accept", 500, "Internal Server Error", NoWorkspace, "none")
          /\ UNCHANGED <<workspaces, invites>>
     ELSE IF body.token = NoToken
     THEN /\ Respond("accept", 400, "Token required", NoWorkspace, "none")
          /\ UNCHANGED <<workspaces, invites>>
     ELSE IF SessionUserId(session) = NoUser
     THEN /\ Respond("accept", 404, "User not found", NoWorkspace, "none")
          /\ UNCHANGED <<workspaces, invites>>
     ELSE IF InvitesByToken(body.token) = {}
     THEN /\ Respond("accept", 404, "Invalid invite", NoWorkspace, "none")
          /\ UNCHANGED <<workspaces, invites>>
     ELSE \E i \in InvitesByToken(body.token) :
       LET invite == invites[i]
           currentUserId == SessionUserId(session)
       IN IF InviteUsed(invite)
          THEN /\ Respond("accept", 410, "Invite already used", invite.workspace_id, "none")
               /\ UNCHANGED <<workspaces, invites>>
          ELSE IF InviteExpired(invite)
          THEN /\ Respond("accept", 410, "Invite expired", invite.workspace_id, "none")
               /\ UNCHANGED <<workspaces, invites>>
          ELSE IF workspaces[invite.workspace_id].user_id = currentUserId
          THEN /\ invites' = [invites EXCEPT ![i].used_at = now]
               /\ UNCHANGED workspaces
               /\ RespondWith("accept", invite.workspace_id,
                      [message |-> "You already have access to this workspace"])
          ELSE /\ workspaces' =
                    [workspaces EXCEPT ![invite.workspace_id].user_id = currentUserId]
               /\ invites' = [invites EXCEPT ![i].used_at = now]
               /\ RespondWith("accept", invite.workspace_id,
                      [success |-> TRUE, workspace |-> workspaces'[invite.workspace_id]])

----------------------------------------------------------------------------
\* Specification of the invite flow: owners create invites, anyone tries to
\* accept them, days pass

AcceptBodies ==
  {UnreadableBody, TokenBody(NoToken)} \cup {TokenBody(t) : t \in 1..MaxInvites + 1}

InitInvite ==
  /\ now = 0
  /\ workspaces = [w \in WorkspaceIds |-> WorkspaceRow(w, w, Null, Null, NullStr)]
  /\ readings = <<>>
  /\ invites = <<>>
  /\ resp = Idle
  /\ posted = <<>>
  /\ requests = NoRequests

NextInvite ==
  \/ \E session \in Sessions : \E w \in {NoWorkspace} \cup WorkspaceIds :
       CreateInvite(session, w)
  \/ \E session \in Sessions : \E body \in AcceptBodies : AcceptInvite(session, body)
  \/ TickBy(DayMinutes, MaxDays * DayMinutes)

SpecInvite == InitInvite /\ [][NextInvite]_vars

\* C10: after an accept of an invite has succeeded, every later accept
\* attempt with the same token is rejected with "Invite already used" (410)
\* and changes neither the invite nor the ownership of the workspace.
\* For every invite t: an accept answered 200 leaves t marked used; once
\* marked, no operation changes the invite again; an attempt on a marked
\* invite by a user in session is answered 410 "Invite already used"; and
\* any attempt on it, with or without a session, is rejected and changes
\* neither invites nor workspaces
C10_UsedInviteRejected ==
  [][\A t \in 1..Len(invites) :
       /\ invites[t].used_at # Null => invites'[t] = invites[t]
       /\ (Served /\ resp'.op = "accept") =>
            \A session \in Sessions :
              \/ /\ resp'.status = 200 => invites'[t].used_at # Null
                 /\ invites[t].used_at # Null =>
                      /\ resp'.status # 200
                      /\ UNCHANGED <<invites, workspaces>>
                      /\ session \in UserIds =>
                           /\ resp'.status = 410
                           /\ resp'.error = "Invite already used"
              \/ ~AcceptInvite(session, TokenBody(t))]_vars

\* workspace 1 went to user 2 by an invite, and a later attempt with that
\* token was answered "Invite already used"
C10_Witness ==
  /\ resp.op = "accept"
  /\ resp.status = 410
  /\ resp.error = "Invite already used"
  /\ resp.ws = 1
  /\ workspaces[1].user_id = 2
  /\ Len(invites) = 1
  /\ invites[1].used_at # Null

\* C11: an accept attempt made after an invite's expiry timestamp is rejected
\* (410) whether or not the invite was used before, and it changes neither
\* the workspace's owner nor the invite's used-at mark. For every invite t
\* whose expires_at lies before now: an attempt on it by a user in session is
\* answered 410, and any attempt on it is rejected and changes neither
\* invites nor workspaces
C11_ExpiredInviteRejected ==
  [][(Served /\ resp'.op = "accept") =>
       \A t \in 1..Len(invites) :
         invites[t].expires_at < now =>
           \A session \in Sessions :
             \/ /\ resp'.status # 200
                /\ UNCHANGED <<invites, workspaces>>
                /\ session \in UserIds => resp'.status = 410
             \/ ~AcceptInvite(session, TokenBody(t))]_vars

\* an invite nobody used was tried after its expiry and answered "Invite
\* expired"; the workspace still has its first owner
C11_Witness ==
  /\ resp.op = "accept"
  /\ resp.status = 410
  /\ resp.error = "Invite expired"
  /\ Len(invites) = 1
  /\ invites[1].used_at = Null
  /\ invites[1].expires_at < now
  /\ workspaces[invites[1].workspace_id].user_id = invites[1].workspace_id

----------------------------------------------------------------------------
\* /v1/invite/accept served statement by statement, several requests at a time

\* Request r after its statement: where it stands, whose session it has, the
\* invite row it read, its answer, and what its UPDATEs did
RequestAt(at, session, invite, status, consumed, transferred) ==
  [at |-> at, session |-> session, invite |-> invite, status |-> status,
   consumed |-> consumed, transferred |-> transferred]

\* The request ends here with this answer
Finish(r, req, answer) ==
  /\ resp' = answer
  /\ requests' = [requests EXCEPT ![r] =
                    [req EXCEPT !.at = "done", !.status = answer.status]]

\* The session check, the body, the users row and the SELECT of the invite,
\* with the tests made on the row that was read
AcceptBegin(r, session, body) ==
  /\ requests[r].at = "idle"
  /\ UNCHANGED <<now, workspaces, readings, invites, posted>>
  /\ LET fresh == RequestAt("idle", session, 0, 0, FALSE, FALSE)
         Refuse(status, error) ==
           Finish(r, fresh, Answer("accept", status, error, NoWorkspace, "none"))
     IN IF session = NoUser THEN Refuse(401, "Must be logged in to accept invite")
        ELSE IF body.kind = "unreadable" THEN Refuse(500, "Internal Server Error")
        ELSE IF body.token = NoToken THEN Refuse(400, "Token required")
        ELSE IF SessionUserId(session) = NoUser THEN Refuse(404, "User not found")
        ELSE IF InvitesByToken(body.token) = {} THEN Refuse(404, "Invalid invite")
        ELSE \E i \in InvitesByToken(body.token) :
          LET read == [fresh EXCEPT !.invite = i]
              w == invites[i].workspace_id
          IN IF InviteUsed(invites[i])
             THEN Finish(r, read, Answer("accept", 410, "Invite already used", w, "none"))
             ELSE IF InviteExpired(invites[i])
             THEN Finish(r, read, Answer("accept", 410, "Invite expired", w, "none"))
             ELSE /\ requests' = [requests EXCEPT ![r] = [read EXCEPT !.at = "existing"]]
                  /\ UNCHANGED resp

\* The next statement of request r: SELECT existing, UPDATE workspaces,
\* UPDATE workspace_invites, SELECT the workspace and answer
AcceptStep(r) ==
  LET req == requests[r]
      w == invites[req.invite].workspace_id
      currentUserId == SessionUserId(req.session)
      Goto(at) == requests' = [requests EXCEPT ![r].at = at]
  IN /\ UNCHANGED <<now, readings, posted>>
     /\ CASE req.at = "existing" ->
             /\ Goto(IF workspaces[w].user_id = currentUserId
                     THEN "markOnly" ELSE "transfer")
             /\ UNCHANGED <<workspaces, invites, resp>>
          [] req.at = "markOnly" ->
             /\ invites' = [invites EXCEPT ![req.invite].used_at = now]
             /\ UNCHANGED workspaces
             /\ Finish(r, [req EXCEPT !.consumed = TRUE],
                   AnswerWith("accept", w,
                     [message |-> "You already have access to this workspace"]))
          [] req.at = "transfer" ->
             /\ workspaces' = [workspaces EXCEPT ![w].user_id = currentUserId]
             /\ requests' = [requests EXCEPT ![r] =
                   [req EXCEPT !.at = "mark",
                               !.transferred = workspaces[w].user_id # currentUserId]]
             /\ UNCHANGED <<invites, resp>>
          [] req.at = "mark" ->
             /\ invites' = [invites EXCEPT ![req.invite].used_at = now]
             /\ requests' = [requests EXCEPT ![r] =
                   [req EXCEPT !.at = "reload", !.consumed = TRUE]]
             /\ UNCHANGED <<workspaces, resp>>
          [] req.at = "reload" ->
             /\ UNCHANGED <<workspaces, invites>>
             /\ Finish(r, req,
                   AnswerWith("accept", w, [success |-> TRUE, workspace |-> workspaces[w]]))
          [] OTHER -> FALSE

\* Specification of concurrent accepts: an owner creates an invite and
\* requests of any session interleave their statements
NextAccept ==
  \/ \E w \in WorkspaceIds : CreateInvite(workspaces[w].user_id, w)
  \/ \E r \in ReqIds : \E session \in Sessions :
     \E body \in {UnreadableBody} \cup {TokenBody(t) : t \in 0..MaxInvites + 1} :
       AcceptBegin(r, session, body)
  \/ \E r \in ReqIds : AcceptStep(r)

SpecAccept == InitInvite /\ [][NextAccept]_vars

\* the requests that marked invite t used and changed the owner of its workspace
Consumers(t) ==
  {r \in ReqIds : /\ requests[r].at # "idle"
                  /\ requests[r].invite = t
                  /\ requests[r].consumed
                  /\ requests[r].transferred}

\* C12: for every invite and every interleaving of concurrent accept
\* requests by the same or different users, at most one accept request
\* consumes the invite and transfers the workspace's ownership
C12_AsStated == \A t \in 1..Len(invites) : Cardinality(Consumers(t)) <= 1

\* two requests with one token were both answered with success, each having
\* taken the workspace over
C12_Witness ==
  /\ Len(invites) = 1
  /\ \A r \in 1..2 : /\ requests[r].at = "done"
                      /\ requests[r].status = 200
                      /\ requests[r].invite = 1
                      /\ requests[r].transferred
  /\ requests[1].session # requests[2].session

----------------------------------------------------------------------------
\* The other operations of the backend

\* GET /v1/dashboard?workspace_id=..
GetDashboard(authHeader, sessionUser, wsId) ==
  /\ UNCHANGED <<now, workspaces, readings, invites, posted, requests>>
  /\ LET caller == ResolveCaller(authHeader, sessionUser)
         Asked(answer) == resp' = [answer EXCEPT !.user = caller.userId]
     IN \E w \in TargetWorkspaces(caller, wsId) :
          IF w = NoWorkspace
          THEN Asked(Answer("dashboard", 400, "Workspace required", NoWorkspace, "none"))
          ELSE IF caller.userId # NoUser /\ ~Owns(caller.userId, w)
          THEN Asked(Answer("dashboard", 403, "Forbidden", w, "none"))
          ELSE IF RowsOf(readings, w) = {}
          THEN Asked(AnswerWith("dashboard", w,
                 [latest |-> 0, reportedAt |-> Null, online |-> NullStr,
                  gatewayOnline |-> "false"]))
          ELSE \E i \in DashboardLatest(readings, w) :
                 Asked(AnswerWith("dashboard", w,
                   [latest |-> i, reportedAt |-> readings[i].timestamp,
                    online |-> readings[i].gateway_online,
                    gatewayOnline |-> IF now - readings[i].timestamp < 10
                                     THEN "true" ELSE "false"]))

\* getDashboardData of the dashboard page when it reads the store itself
\* (DATABASE_URL is set); workspaceId 0 stands for a text parseInt makes
\* nothing of
getDashboardData(workspaceId) ==
  /\ UNCHANGED <<now, workspaces, readings, invites, posted, requests>>
  /\ LET wsId == IF TruthyNum(workspaceId) THEN workspaceId ELSE 1
     IN IF RowsOf(readings, wsId) = {}
        THEN RespondWith("page_dashboard", wsId,
               [latest |-> 0, reportedAt |-> Null, online |-> NullStr,
                gatewayOnline |-> "false"])
        ELSE \E i \in DashboardLatest(readings, wsId) :
               RespondWith("page_dashboard", wsId,
                 [latest |-> i, reportedAt |-> readings[i].timestamp,
                  online |-> readings[i].gateway_online,
                  gatewayOnline |-> readings[i].gateway_online])

\* GET /v1/agents?workspace_id=..: the readings of the last 24 hours grouped
\* by hostname (wsId Null: not given)
GetAgents(wsId) ==
  /\ UNCHANGED <<now, workspaces, readings, invites, posted, requests>>
  /\ IF wsId = Null
     THEN Respond("agents", 400, "Workspace ID required", NoWorkspace, "none")
     ELSE LET day == RowsSince(readings, wsId, now - DayMinutes)
              HostOf(i) == IF readings[i].system_hostname = NullStr THEN "unknown"
                           ELSE readings[i].system_hostname
              Group(h) == {i \in day : HostOf(i) = h}
              Flags(h) == {readings[i].gateway_online : i \in Group(h)}
          IN RespondWith("agents", wsId,
               {[hostname |-> h,
                 lastSeen |-> readings[CHOOSE i \in Group(h) :
                                \A j \in Group(h) :
                                  readings[i].timestamp >= readings[j].timestamp].timestamp,
                 isOnline |-> IF "true" \in Flags(h) THEN "true"
                              ELSE IF "false" \in Flags(h) THEN "false" ELSE NullStr,
                 cost24h |-> IF SumCost(readings, Group(h)) = Null THEN 0
                             ELSE SumCost(readings, Group(h))] :
                  h \in {HostOf(i) : i \in day}})

\* GET /v1/workspace/settings?id=.. (id Null: not given)
GetSettings(session, id) ==
  /\ UNCHANGED <<now, workspaces, readings, invites, posted, requests>>
  /\ IF session = NoUser
     THEN Respond("settings", 401, "Unauthorized", NoWorkspace, "none")
     ELSE IF SessionUserId(session) = NoUser
     THEN Respond("settings", 404, "User not found", NoWorkspace, "none")
     ELSE IF id = Null
     THEN Respond("settings", 400, "Workspace ID required", NoWorkspace, "none")
     ELSE IF ~Owns(SessionUserId(session), id)
     THEN Respond("settings", 403, "Forbidden", id, "none")
     ELSE RespondWith("settings", id, [workspace |-> workspaces[id]])

\* A POST to a path the POST export has no branch for, such as
\* /v1/workspace/settings or /v1/invite/accept
PostUnrouted(op, authHeader) ==
  /\ UNCHANGED <<now, workspaces, readings, invites, posted, requests>>
  /\ IF ~startsWithBearer(authHeader)
     THEN Respond(op, 401, "Missing API key", NoWorkspace, "none")
     ELSE IF getWorkspaceFromKey(authHeader.key) = NoWorkspace
     THEN Respond(op, 401, "Invalid API key", NoWorkspace, "none")
     ELSE Respond(op, 404, "Not found", getWorkspaceFromKey(authHeader.key), "none")

----------------------------------------------------------------------------
\* Specification of the whole backend: every operation, on the two
\* workspaces of Init

NextBackend ==
  \/ \E w \in WorkspaceIds : \E o \in {"true", "false"} :
       (w = 1 \/ o = "true") /\ PostReport(ValidAuth(w), Payload(Null, o, 1), "none")
  \/ \E authHeader \in {NoHeader, Bearer(KeyOf(1))} : \E session \in Sessions :
     \E wsId \in {Null} \cup WorkspaceIds :
       GetDashboard(authHeader, session, wsId)
  \/ \E authHeader \in {NoHeader, Bearer(KeyOf(1))} : \E session \in Sessions :
     \E wsId \in {Null} \cup WorkspaceIds :
       GetHistory(authHeader, session, wsId, NoParam)
  \/ \E wsId \in {Null} \cup WorkspaceIds : GetAgents(wsId)
  \/ \E slug \in {"ws-1", "nobody"} : GetStatus(slug)
  \/ \E slug \in {"ws-1", "nobody"} : getStatus(slug)
  \/ \E session \in Sessions : \E id \in {Null} \cup WorkspaceIds :
       GetSettings(session, id)
  \/ \E op \in {"settings", "accept"} :
     \E authHeader \in {NoHeader, Bearer(InvalidKey), Bearer(KeyOf(1))} :
       PostUnrouted(op, authHeader)
  \/ \E session \in Sessions : CreateInvite(session, 1)
  \/ \E session \in Sessions : \E body \in {UnreadableBody, TokenBody(1)} :
       AcceptInvite(session, body)

SpecBackend == Init /\ [][NextBackend]_vars

\* C13: readings are append-only: whatever operation of the backend runs
\* (report ingestion with its alert evaluation, dashboard, history, status,
\* agents, settings, the invite flow), every reading stored before the step
\* is stored after it at the same position with the same fields and the same
\* workspace
C13_ReadingsAppendOnly ==
  [][/\ Len(readings') >= Len(readings)
     /\ \A i \in 1..Len(readings) : readings'[i] = readings[i]]_vars

\* a second reading was inserted, alerts were evaluated, the workspace
\* changed hands through an invite, and the first reading is still there
C13_Witness ==
  /\ Len(readings) >= 2
  /\ readings[1].workspace_id = 1
  /\ posted # <<>>
  /\ workspaces[1].user_id = 2
  /\ resp.op = "dashboard"
  /\ resp.status = 200

----------------------------------------------------------------------------
\* Specification of the readers: reports of workspace 1, some with a
\* timestamp of the client's choice and in any order, time passing in steps
\* of five minutes, and the queries that pick or order readings

NextReaders ==
  \/ \E ts \in {Null, 0, 1} : \E o \in SqlBool :
       PostReport(ValidAuth(1), Payload(ts, o, 1), "none")
  \/ \E wsId \in WorkspaceIds : GetDashboard(NoHeader, 1, wsId)
  \/ \E workspaceId \in {0} \cup WorkspaceIds : getDashboardData(workspaceId)
  \/ GetHistory(NoHeader, 1, 1, NoParam)
  \/ GetStatus("ws-1")
  \/ TickBy(ShortDowntime, 2 * ShortDowntime)

SpecReaders == Init /\ [][NextReaders]_vars

\* the reading a dashboard answer carries has the greatest timestamp of its
\* workspace, and an empty workspace is answered null and offline
DashboardPicksLatest ==
  IF RowsOf(readings, resp.ws) = {}
  THEN resp.body.latest = 0 /\ resp.body.gatewayOnline = "false"
  ELSE /\ resp.body.latest \in RowsOf(readings, resp.ws)
       /\ \A j \in RowsOf(readings, resp.ws) :
            readings[j].timestamp <= resp.body.reportedAt

\* gatewayOnline is true exactly when the reading is less than 10 minutes old
DashboardOnlineByAge ==
  RowsOf(readings, resp.ws) # {} =>
    (resp.body.gatewayOnline = "true") <=> (now - resp.body.reportedAt < 10)

\* C14 as stated, for both readers of the dashboard: the answer carries the
\* reading with the greatest timestamp, gatewayOnline is true exactly when
\* that reading is less than 10 minutes old, whatever its stored flag, and
\* an empty workspace is answered latestReport null, gatewayOnline false
C14_AsStated ==
  [][(Served /\ resp'.op \in {"dashboard", "page_dashboard"} /\ resp'.status = 200) =>
       (DashboardPicksLatest /\ DashboardOnlineByAge)']_vars

\* the API route does as stated
C14_RouteDashboard ==
  [][(Served /\ resp'.op = "dashboard" /\ resp'.status = 200) =>
       (DashboardPicksLatest /\ DashboardOnlineByAge)']_vars

\* the dashboard page picks the same reading but answers its stored flag
C14_PageStoredFlag ==
  [][(Served /\ resp'.op = "page_dashboard") =>
       (/\ DashboardPicksLatest
        /\ RowsOf(readings, resp.ws) # {} =>
             resp.body.gatewayOnline = resp.body.online)']_vars

\* the page answers online for a reading that is ten minutes old
C14_Witness ==
  /\ resp.op = "page_dashboard"
  /\ resp.body.latest # 0
  /\ resp.body.gatewayOnline = "true"
  /\ DashboardPicksLatest
  /\ now - resp.body.reportedAt >= 10

----------------------------------------------------------------------------
\* The errors of the public status, on SpecStatus

\* the workspace a status query for slug is about: the one with that slug,
\* else the first with a reading of that hostname
Matched(slug) ==
  IF WorkspacesBySlug(slug) # {} THEN WorkspacesBySlug(slug)
  ELSE IF WorkspacesByHostname(slug) # {} THEN {LowestId(WorkspacesByHostname(slug))}
  ELSE {}

OptedOut(w) == workspaces[w].is_public = "false"

\* what the claim asks of the answer to a status query for slug
StatusErrorsAsSpecified(slug) ==
  /\ resp'.error = "Status page not found" <=> Matched(slug) = {}
  /\ resp'.op = "status" /\ Matched(slug) = {} => resp'.status = 404
  /\ resp'.error = "private" <=> \E w \in Matched(slug) : OptedOut(w)
  /\ resp'.error = "" => ~OptedOut(resp'.ws)

\* C15 as stated, for both readers of the public status and every slug but
\* the empty one: "Status page not found" (404 from the route) exactly when
\* no workspace matches the slug or hostname, "private" exactly when the
\* matched workspace opted out, and never data of a workspace that opted out
C15_AsStated ==
  [][\A slug \in Slugs \ {""} :
       \/ StatusErrorsAsSpecified(slug)
       \/ ~(GetStatus(slug) \/ getStatus(slug))]_vars

\* the status page does as stated
C15_PageErrors ==
  [][\A slug \in Slugs \ {""} :
       StatusErrorsAsSpecified(slug) \/ ~getStatus(slug)]_vars

\* the status route looks up the slug only and answers every workspace found
C15_RouteErrors ==
  [][\A slug \in Slugs \ {""} :
       \/ /\ resp'.error = "Status page not found" <=> WorkspacesBySlug(slug) = {}
          /\ resp'.error = "Status page not found" => resp'.status = 404
          /\ resp'.error # "private"
       \/ ~GetStatus(slug)]_vars

\* the route answered status data of workspace 2, which opted out
C15_Witness ==
  /\ resp.op = "status"
  /\ resp.status = 200
  /\ resp.error = ""
  /\ resp.ws = 2
  /\ OptedOut(2)
  /\ resp.body.lastCheck # Null

----------------------------------------------------------------------------
\* Authorization, on SpecBackend

\* the step answers 403 without data and changes nothing of the store
Forbidden ==
  /\ resp'.status = 403
  /\ resp'.body = NoBody
  /\ UNCHANGED <<now, workspaces, readings, invites, posted, requests>>

\* the step is a request by session for workspace w to one of the four
\* operations that check ownership
OwnerOnlyRequest(session, w) ==
  \/ /\ resp'.op = "dashboard"
     /\ \E authHeader \in {NoHeader, Bearer(KeyOf(1))} :
          GetDashboard(authHeader, session, w)
  \/ /\ resp'.op = "history"
     /\ \E authHeader \in {NoHeader, Bearer(KeyOf(1))} :
          GetHistory(authHeader, session, w, NoParam)
  \/ resp'.op = "settings" /\ GetSettings(session, w)
  \/ resp'.op = "invite" /\ CreateInvite(session, w)

CarriesReadings ==
  /\ resp'.status = 200
  /\ resp'.op = "history" => resp'.body.history # <<>>
  /\ resp'.op = "dashboard" => resp'.body.latest # 0

\* C17 as stated: a dashboard or history request with neither a valid
\* workspace key nor a session that resolves to a user never receives
\* readings, whatever workspace_id it names
C17_AsStated ==
  [][(Served /\ resp'.op \in {"dashboard", "history"} /\ resp'.user = NoUser) =>
       ~CarriesReadings]_vars

\* such a request is refused only when it names no workspace: it is never
\* answered 401 or 403
C17_OpenByWorkspaceId ==
  [][(Served /\ resp'.op \in {"dashboard", "history"} /\ resp'.user = NoUser) =>
       \/ resp'.status = 400 /\ resp'.ws = NoWorkspace
       \/ resp'.status = 200 /\ resp'.ws \in WorkspaceIds]_vars

\* a request without key and session was answered the history of workspace 1
C17_Witness ==
  /\ resp.op = "history"
  /\ resp.user = NoUser
  /\ resp.status = 200
  /\ resp.ws = 1
  /\ resp.body.history # <<>>
  /\ \A i \in 1..Len(resp.body.history) :
       readings[resp.body.history[i]].workspace_id = 1

----------------------------------------------------------------------------
\* Failures of the store and of the webhook during a report, on Spec

\* a webhook call of the last report failed
DispatchFailed == \E i \in 1..Len(posted) : ~posted[i].ok

\* C18 as stated: a report during which the store failed is answered 500,
\* and a report whose webhook call failed is answered as if it had not
C18_AsStated ==
  resp.op = "report" =>
    /\ resp.fault # "none" => resp.status = 500
    /\ (resp.fault = "none" /\ DispatchFailed) => resp.status = 200

\* what the handler does: a failure of the key lookup, outside the try
\* block, is answered 500; a failure of the INSERT or of the window query,
\* inside it, is answered 400 "Invalid payload"; a failed webhook call is
\* not surfaced
C18_StoreFaultStatus ==
  resp.op = "report" =>
    /\ resp.fault = "lookup" => resp.status = 500
    /\ resp.fault \in {"insert", "window"} =>
         resp.status = 400 /\ resp.error = "Invalid payload"
    /\ (resp.fault = "none" /\ DispatchFailed) => resp.status = 200

\* the INSERT failed and the report was answered 400
C18_Witness ==
  /\ resp.op = "report"
  /\ resp.fault = "insert"
  /\ resp.status = 400
  /\ resp.ws = 1

----------------------------------------------------------------------------
\* The report handler one statement at a time, so that requests interleave

\* The handler that answers right after the INSERT
MutAfterStatement(at, workspace) == "respond"

\* Where the try block of the report handler goes after the statement at
\* `at`: the INSERT, the cost check, the downtime check if the workspace has
\* alert_downtime_minutes, the response
AfterStatement(at, workspace) ==
  IF at = "insert" THEN "cost"
  ELSE IF at = "cost" /\ TruthyNum(workspace.alert_downtime_minutes) THEN "window"
  ELSE "respond"

\* The key is valid and request.json() gave an object: the request stands
\* before its INSERT
ReportBegin(r, w, body) ==
  /\ requests[r].at = "idle"
  /\ BodyParses(body)
  /\ requests' = [requests EXCEPT ![r] =
                    [at |-> "insert", ws |-> w, body |-> body, row |-> 0,
                     posts |-> <<>>, seen |-> {}, done |-> <<>>, status |-> 0]]
  /\ UNCHANGED <<now, workspaces, readings, invites, resp, posted>>

\* The next statement of request r; done lists the statements it has
\* completed, row is the reading it inserted, seen the rows its window query
\* returned, posts its webhook calls (which the webhook accepts)
ReportStep(r, fault) ==
  /\ requests[r].at \in {"insert", "cost", "window", "respond"}
  /\ UNCHANGED <<now, workspaces, invites>>
  /\ LET req == requests[r]
         workspace == workspaces[req.ws]
         Completed == [req EXCEPT !.at = AfterStatement(req.at, workspace),
                                  !.done = Append(req.done, req.at)]
         Caught == \* the catch block: 400 "Invalid payload"
           /\ resp' = Answer("report", 400, "Invalid payload", req.ws, fault)
           /\ posted' = req.posts
           /\ requests' = [requests EXCEPT ![r] =
                             [req EXCEPT !.at = "done", !.status = 400]]
     IN IF req.at = "insert"
        THEN IF fault = "insert"
             THEN Caught /\ UNCHANGED readings
             ELSE /\ readings' = InsertReading(readings, ReadingRow(req.ws, req.body))
                  /\ requests' = [requests EXCEPT ![r] =
                                    [Completed EXCEPT !.row = Len(readings) + 1]]
                  /\ UNCHANGED <<resp, posted>>
        ELSE IF req.at = "cost"
        THEN /\ \E c \in CostPosts(workspace, req.body) :
                  /\ \A i \in 1..Len(c) : c[i].ok
                  /\ requests' = [requests EXCEPT ![r] = [Completed EXCEPT !.posts = c]]
             /\ UNCHANGED <<readings, resp, posted>>
        ELSE IF req.at = "window"
        THEN IF fault = "window"
             THEN Caught /\ UNCHANGED readings
             ELSE /\ \E d \in DowntimePosts(readings, workspace) :
                       /\ \A i \in 1..Len(d) : d[i].ok
                       /\ requests' = [requests EXCEPT ![r] =
                                         [Completed EXCEPT
                                            !.posts = req.posts \o d,
                                            !.seen = RecentReadings(readings, workspace)]]
                  /\ UNCHANGED <<readings, resp, posted>>
        ELSE /\ resp' = Answer("report", 200, "", req.ws, "none")
             /\ posted' = req.posts
             /\ requests' = [requests EXCEPT ![r] =
                               [Completed EXCEPT !.at = "done", !.status = 200]]
             /\ UNCHANGED readings

\* Specification of concurrent reports: each request once (numbered as they
\* begin), its statements interleaved with those of the others, the store
\* failing at any statement
NextReports ==
  \/ \E r \in ReqIds : \E w \in WorkspaceIds :
       /\ \A q \in 1..(r - 1) : requests[q].at # "idle"
       /\ ReportBegin(r, w, Payload(Null, "false", 1))
  \/ \E r \in ReqIds : \E fault \in {"none", "insert", "window"} : ReportStep(r, fault)

SpecReports == Init /\ [][NextReports]_vars

\* the statements of a report in the order the claim gives, for a workspace
\* with or without a downtime threshold
ReportOrder(workspace) ==
  IF TruthyNum(workspace.alert_downtime_minutes)
  THEN <<"insert", "cost", "window", "respond">>
  ELSE <<"insert", "cost", "respond">>

----------------------------------------------------------------------------
\* Ordering of the readers' answers, on SpecReaders

\* the timestamps of the rows ids of store rs, in the order of ids
TimesOf(rs, ids) == [k \in 1..Len(ids) |-> rs[ids[k]].timestamp]

\* the greatest timestamp among the readings of workspace w in rs
GreatestOf(rs, w) ==
  CHOOSE t \in {rs[i].timestamp : i \in RowsOf(rs, w)} :
    \A i \in RowsOf(rs, w) : rs[i].timestamp <= t

\* the store with its rows in the order p
Reordered(p) == [i \in 1..Len(readings) |-> readings[p[i]]]

\* every order of the stored rows gives the history the same timestamps in
\* the same places and the dashboard and the status the same greatest
\* timestamp, however the store breaks ties
InsertionOrderIndependent ==
  \A p \in Permutations(1..Len(readings)) : \A tie \in TieOrders :
    /\ TimesOf(Reordered(p), SelectHistory(Reordered(p), 1, DefaultHours * PerHour, tie))
         = TimesOf(readings, SelectHistory(readings, 1, DefaultHours * PerHour, "asc"))
    /\ {Reordered(p)[i].timestamp : i \in DashboardLatest(Reordered(p), 1)}
         = {readings[i].timestamp : i \in DashboardLatest(readings, 1)}

\* C20: whatever the order in which the readings were inserted, a history
\* answer lists all readings of the workspace with timestamps never
\* increasing, a dashboard answer and a status answer carry the greatest
\* timestamp of the workspace, and the same readings stored in any other
\* order give the same answers
C20_TimestampOrder ==
  /\ []InsertionOrderIndependent
  /\ [][Served =>
         /\ (resp'.op = "history" /\ resp'.status = 200) =>
              LET h == resp'.body.history
              IN /\ {h[k] : k \in 1..Len(h)} = RowsOf(readings, resp'.ws)
                 /\ \A k \in 1..(Len(h) - 1) :
                      readings[h[k]].timestamp >= readings[h[k + 1]].timestamp
         /\ (resp'.op = "dashboard" /\ resp'.status = 200 /\ resp'.body.latest # 0) =>
              resp'.body.reportedAt = GreatestOf(readings, resp'.ws)
         /\ (resp'.op = "status" /\ resp'.status = 200 /\ resp'.body.lastCheck # Null) =>
              resp'.body.lastCheck = GreatestOf(readings, resp'.ws)]_vars

\* the history lists the reading inserted first before the one inserted
\* last, which carries an older timestamp
C20_Witness ==
  /\ resp.op = "history"
  /\ resp.status = 200
  /\ Len(readings) = 2
  /\ resp.body.history = <<1, 2>>
  /\ readings[1].timestamp > readings[2].timestamp

----------------------------------------------------------------------------
\* The accept request of the invite page, on SpecBackend

\* invite t can still be accepted
Acceptable(t) == ~InviteUsed(invites[t]) /\ ~InviteExpired(invites[t])

\* C21 as stated: a POST to /v1/invite/accept while an unused, unexpired
\* invite is stored is answered with success, marks the invite used and
\* changes the owner of the invite's workspace
C21_AsStated ==
  [][\A t \in 1..Len(invites) : \A authHeader \in {NoHeader, Bearer(KeyOf(1))} :
       (Acceptable(t) /\ PostUnrouted("accept", authHeader)) =>
          /\ resp'.status = 200
          /\ invites'[t].used_at # Null
          /\ workspaces'[invites[t].workspace_id] # workspaces[invites[t].workspace_id]]_vars

\* what the POST export does with it: 401 without a workspace key, 404 with
\* one, and neither the invite nor the workspace changes
C21_PostAcceptRefused ==
  [][\A authHeader \in {NoHeader, Bearer(InvalidKey), Bearer(KeyOf(1))} :
       PostUnrouted("accept", authHeader) =>
          /\ resp'.status \in {401, 404}
          /\ UNCHANGED <<invites, workspaces>>]_vars

\* the POST of the invite page was answered 401 "Missing API key" and the
\* invite is still unused
C21_Witness ==
  /\ resp.op = "accept"
  /\ resp.status = 401
  /\ resp.error = "Missing API key"
  /\ Len(invites) = 1
  /\ Acceptable(1)
  /\ workspaces[invites[1].workspace_id].user_id = 1

----------------------------------------------------------------------------
(* The collector: reporter.ts ("reporter") and its later variant of
   part_001 ("universal") *)

MaxSessions == 2

\* MODEL_PRICING in the order of its keys: a model name is the sequence of
\* the parts between its hyphens, the rates are cents per million tokens
MODEL_PRICING ==
  << [key |-> <<"claude", "opus", "4", "5">>, input |-> 1500, output |-> 7500],
     [key |-> <<"claude", "sonnet", "4", "5">>, input |-> 300, output |-> 1500],
     [key |-> <<"claude", "sonnet", "4">>, input |-> 300, output |-> 1500],
     [key |-> <<"claude", "haiku", "3", "5">>, input |-> 25, output |-> 125],
     [key |-> <<"gpt", "4o">>, input |-> 250, output |-> 1000],
     [key |-> <<"gpt", "4o", "mini">>, input |-> 15, output |-> 60],
     [key |-> <<"deepseek", "v3">>, input |-> 27, output |-> 110],
     [key |-> <<"default">>, input |-> 300, output |-> 1500] >>

\* primaryModel.includes(k)
includes(name, k) ==
  \E i \in 1..(Len(name) - Len(k) + 1) : SubSeq(name, i, i + Len(k) - 1) = k

\* The lookup that takes the key equal to the name before any key the name
\* contains
OwnKeyPricingOf(name) ==
  LET exact == {i \in 1..Len(MODEL_PRICING) : MODEL_PRICING[i].key = name}
      hits == {i \in 1..Len(MODEL_PRICING) : includes(name, MODEL_PRICING[i].key)}
      Least(s) == CHOOSE i \in s : \A j \in s : i <= j
  IN IF exact # {} THEN MODEL_PRICING[Least(exact)]
     ELSE IF hits = {} THEN MODEL_PRICING[Len(MODEL_PRICING)]
     ELSE MODEL_PRICING[Least(hits)]

\* MODEL_PRICING[Object.keys(MODEL_PRICING).find(k => name.includes(k)) ||
\* 'default']
PricingOf(name) ==
  LET hits == {i \in 1..Len(MODEL_PRICING) : includes(name, MODEL_PRICING[i].key)}
  IN IF hits = {} THEN MODEL_PRICING[Len(MODEL_PRICING)]
     ELSE MODEL_PRICING[CHOOSE i \in hits : \A j \in hits : i <= j]

\* Object.entries(modelBreakdown).sort((a, b) => b[1] - a[1])[0]?.[0] ||
\* 'default': the breakdown lists its models in the order they were first
\* seen, the sort is stable
PrimaryModel(modelBreakdown) ==
  IF modelBreakdown = <<>> THEN <<"default">>
  ELSE LET first == CHOOSE i \in 1..Len(modelBreakdown) :
                      /\ \A j \in 1..Len(modelBreakdown) :
                           modelBreakdown[j].count <= modelBreakdown[i].count
                      /\ \A j \in 1..(i - 1) :
                           modelBreakdown[j].count < modelBreakdown[i].count
       IN modelBreakdown[first].model

\* calculateCosts: tokens in millions, costs in cents
calculateCosts(tokens, modelBreakdown, dayOfMonth) ==
  LET pricing == PricingOf(PrimaryModel(modelBreakdown))
      todayCost == tokens.inputTokens * pricing.input
                     + tokens.outputTokens * pricing.output
  IN [today |-> todayCost, month |-> todayCost * dayOfMonth]

\* A session of sessions.json: updated in the last ten minutes (recent),
\* updated since midnight (today), its token counts and its model
Session(recent, today, model) ==
  [recent |-> recent, today |-> today, inputTokens |-> 1, outputTokens |-> 2,
   model |-> model]

\* session.model || session.modelOverride || 'unknown'
ModelOf(session) == IF session.model = <<>> THEN <<"unknown">> ELSE session.model

RECURSIVE TokensToday(_, _, _)
\* the sum of a token count over the first n sessions updated today
TokensToday(sessions, n, count) ==
  IF n = 0 THEN 0
  ELSE TokensToday(sessions, n - 1, count)
         + (IF sessions[n].today THEN sessions[n][count] ELSE 0)

\* A file of the OpenClaw directory: absent, unparsable, or read (with its
\* sessions, or the number of its cron jobs, all enabled)
NoFile == [state |-> "absent", sessions |-> <<>>, jobs |-> 0]
BadFile == [state |-> "unparsable", sessions |-> <<>>, jobs |-> 0]
SessionsFile(sessions) == [state |-> "read", sessions |-> sessions, jobs |-> 0]
CronFile(jobs) == [state |-> "read", sessions |-> <<>>, jobs |-> jobs]

\* getSessionStats of reporter.ts
getSessionStats(file) ==
  LET s == file.sessions
      n == Len(s)
      firsts == SelectSeq([i \in 1..n |-> i],
                  LAMBDA i : /\ s[i].today
                             /\ \A j \in 1..(i - 1) :
                                  ~(s[j].today /\ ModelOf(s[j]) = ModelOf(s[i])))
  IN IF file.state # "read"
     THEN [active |-> 0, total |-> 0,
           tokens |-> [inputTokens |-> 0, outputTokens |-> 0, totalTokens |-> 0],
           modelBreakdown |-> <<>>]
     ELSE [active |-> Cardinality({i \in 1..n : s[i].recent}),
           total |-> n,
           tokens |-> [inputTokens |-> TokensToday(s, n, "inputTokens"),
                       outputTokens |-> TokensToday(s, n, "outputTokens"),
                       totalTokens |-> TokensToday(s, n, "inputTokens")
                                         + TokensToday(s, n, "outputTokens")],
           modelBreakdown |->
             [k \in 1..Len(firsts) |->
                [model |-> ModelOf(s[firsts[k]]),
                 count |-> Cardinality({j \in 1..n :
                             s[j].today /\ ModelOf(s[j]) = ModelOf(s[firsts[k]])})]]]

\* getCronStats of reporter.ts
getCronStats(file) ==
  IF file.state = "read" THEN [enabled |-> file.jobs, total |-> file.jobs]
  ELSE [enabled |-> 0, total |-> 0]

\* main of reporter.ts up to the payload; getOpenClawDir throws when the
\* host has no OpenClaw directory
ReporterPayload(env) ==
  IF ~env.dir THEN [thrown |-> TRUE]
  ELSE LET sessionStats == getSessionStats(env.sessions)
       IN [thrown |-> FALSE,
           sessions |-> [active |-> sessionStats.active, total |-> sessionStats.total],
           crons |-> getCronStats(env.cron),
           costs |-> calculateCosts(sessionStats.tokens, sessionStats.modelBreakdown,
                                    env.day),
           tokens |-> sessionStats.tokens,
           modelBreakdown |-> sessionStats.modelBreakdown,
           system |-> "collected"]

\* getOpenClawMetrics of part_001: sessions and crons are read inside one
\* try block
getOpenClawMetrics(env) ==
  LET n == Len(env.sessions.sessions)
      counted == [active |-> Cardinality({i \in 1..n : env.sessions.sessions[i].recent}),
                  total |-> n]
      none == [active |-> 0, total |-> 0]
  IN IF env.sessions.state = "unparsable"
     THEN [sessions |-> none, crons |-> [enabled |-> 0, total |-> 0]]
     ELSE [sessions |-> IF env.sessions.state = "read" THEN counted ELSE none,
           crons |-> getCronStats(env.cron)]

\* main of part_001 up to the payload; loadConfig throws when there is no
\* API key; Object.assign puts the OpenClaw metrics over what was collected
UniversalPayload(env) ==
  IF ~env.key THEN [thrown |-> TRUE]
  ELSE LET crontab == IF env.crontab = "read" THEN [enabled |-> 1, total |-> 1]
                      ELSE [enabled |-> 0, total |-> 0]
           oc == getOpenClawMetrics(env)
       IN [thrown |-> FALSE,
           sessions |-> IF env.dir THEN oc.sessions ELSE [active |-> 0, total |-> 0],
           crons |-> IF env.dir THEN oc.crons ELSE crontab,
           costs |-> [today |-> 0, month |-> 0],
           system |-> "collected",
           endpoints |-> env.endpoints,
           processes |-> env.processes,
           custom |-> env.custom]

\* What the report handler stores of a payload's token counts
\* (p.tokens?.input ?? null, p.tokens?.output ?? null)
TokenColumns(p) ==
  LET Count(name) == IF "tokens" \in DOMAIN p /\ name \in DOMAIN p.tokens
                     THEN p.tokens[name] ELSE Null
  IN [tokens_input |-> Count("input"), tokens_output |-> Count("output")]

\* tokens of the dashboard answer: row.tokens_output ? {input:
\* Number(row.tokens_input || 0), output: Number(row.tokens_output)} :
\* undefined
DashboardTokens(row) ==
  IF TruthyNum(row.tokens_output)
  THEN [given |-> TRUE,
        input |-> IF TruthyNum(row.tokens_input) THEN row.tokens_input ELSE 0,
        output |-> row.tokens_output]
  ELSE [given |-> FALSE, input |-> 0, output |-> 0]

\* The hosts a collector runs on: which collector, whether the OpenClaw
\* directory exists, its sessions and cron files, whether an API key is
\* set, the day of the month, and for the universal collector the crontab
\* and the configured checks with their outcomes
\* the sessions files: absent, unparsable, or up to MaxSessions sessions,
\* each updated today with a model name (two keys of the price table, a
\* name that has both inside it, a name with no key, none) or not updated
\* today
SessionFiles ==
  {NoFile, BadFile}
  \cup {SessionsFile(s) :
          s \in UNION {[1..n -> {Session(TRUE, TRUE, m) :
                                   m \in {<<"gpt", "4o", "mini">>, <<"gpt", "4o">>,
                                          <<"gpt", "4o", "mini", "2024">>,
                                          <<"llama", "3">>, <<>>}}
                                 \cup {Session(FALSE, FALSE, <<"gpt", "4o">>)}] :
                       n \in 0..MaxSessions}}

Hosts ==
  LET all ==
        {[variant |-> "reporter", dir |-> dir, sessions |-> sessions, cron |-> cron,
          key |-> key, day |-> day, crontab |-> "off", endpoints |-> "off",
          processes |-> "off", custom |-> "off"] :
           dir \in BOOLEAN, sessions \in SessionFiles,
           cron \in {NoFile, BadFile, CronFile(2)}, key \in BOOLEAN, day \in {1, 31}}
        \cup
        {[variant |-> "universal", dir |-> dir, sessions |-> sessions, cron |-> cron,
          key |-> key, day |-> 1, crontab |-> crontab, endpoints |-> e,
          processes |-> p, custom |-> c] :
           dir \in BOOLEAN,
           sessions \in {NoFile, BadFile, SessionsFile(<<Session(TRUE, TRUE, <<>>)>>)},
           cron \in {NoFile, BadFile, CronFile(2)}, key \in BOOLEAN,
           crontab \in {"off", "failed", "read"},
           e \in {"off", "up", "error"}, p \in {"off", "running", "error"},
           c \in {"off", "collected", "error"}}
  IN \* without the directory there is no file in it
     {env \in all : env.dir \/ (env.sessions = NoFile /\ env.cron = NoFile)}

\* the payload main builds on host env
PayloadOn(env) ==
  IF env.variant = "reporter" THEN ReporterPayload(env) ELSE UniversalPayload(env)

\* The collector is started on host env. A run of the collector: where it
\* stands, its host, its payload, the submissions it has attempted, its
\* exit status (Null while it runs) and the reading the backend stored for
\* it
CollectorStart(env) ==
  /\ requests[1].at = "idle"
  /\ requests' = [requests EXCEPT ![1] =
                    [at |-> "main", env |-> env, payload |-> [thrown |-> FALSE],
                     attempts |-> 0, exit |-> Null, row |-> 0]]
  /\ UNCHANGED <<now, workspaces, readings, invites, resp, posted>>

\* main up to the payload: an exception ends the run through
\* main().catch with process.exit(1)
CollectorMain ==
  /\ requests[1].at = "main"
  /\ LET run == requests[1]
         payload == PayloadOn(run.env)
     IN requests' = [requests EXCEPT ![1] =
                       IF payload.thrown
                       THEN [run EXCEPT !.at = "exited", !.payload = payload, !.exit = 1]
                       ELSE [run EXCEPT !.at = "post", !.payload = payload]]
  /\ UNCHANGED <<now, workspaces, readings, invites, resp, posted>>

\* the end of main: postReport, or the dry run of reporter.ts without API
\* key; the backend answers 2xx and stores the reading ("stored"), answers
\* another status ("refused"), or cannot be reached ("unreachable")
MutExitStatus(outcome) == 0

\* the exit status after postReport: fetch rejects when the backend cannot
\* be reached and postReport throws on !response.ok, either of which ends
\* in main().catch with process.exit(1); otherwise main returns
ExitStatus(outcome) == IF outcome = "stored" THEN 0 ELSE 1

CollectorPost(outcome) ==
  /\ requests[1].at = "post"
  /\ UNCHANGED <<now, workspaces, invites, resp, posted>>
  /\ LET run == requests[1]
         Exit(attempts, exit, row) ==
           requests' = [requests EXCEPT ![1] =
                          [run EXCEPT !.at = "exited", !.attempts = attempts,
                                      !.exit = exit, !.row = row]]
     IN IF ~run.env.key
        THEN Exit(0, 0, 0) /\ UNCHANGED readings
        ELSE IF outcome = "stored"
        THEN /\ readings' = InsertReading(readings,
                                [workspace_id |-> 1, timestamp |-> now]
                                  @@ TokenColumns(run.payload))
             /\ Exit(run.attempts + 1, ExitStatus(outcome), Len(readings) + 1)
        ELSE Exit(run.attempts + 1, ExitStatus(outcome), 0) /\ UNCHANGED readings

NextCollector ==
  \/ \E env \in Hosts : CollectorStart(env)
  \/ CollectorMain
  \/ \E outcome \in {"stored", "refused", "unreachable"} : CollectorPost(outcome)

SpecCollector == Init /\ [][NextCollector]_vars

\* a started process runs on until it exits: node executes main to its
\* end, and fetch settles with a response or a rejection
\* the hosts of the runs followed to their end: both collectors, with and
\* without directory and API key, files absent, unparsable or read
NextRuns ==
  \/ \E env \in {host \in Hosts :
                    /\ host.sessions \in {NoFile, BadFile,
                                           SessionsFile(<<Session(TRUE, TRUE, <<>>)>>)}
                    /\ host.cron \in {NoFile, CronFile(2)}
                    /\ host.day = 1
                    /\ host.crontab = "off" /\ host.endpoints \in {"off", "error"}
                    /\ host.processes = "off" /\ host.custom = "off"} :
       CollectorStart(env)
  \/ CollectorMain
  \/ \E outcome \in {"stored", "refused", "unreachable"} : CollectorPost(outcome)

SpecCollectorRuns ==
  /\ Init /\ [][NextRuns]_vars
  /\ WF_vars(CollectorMain)
  /\ WF_vars(\E outcome \in {"stored", "refused", "unreachable"} : CollectorPost(outcome))

----------------------------------------------------------------------------
\* Claims about the collector, on SpecCollector

\* the run of the collector, once main has built its payload or thrown
Collected == requests[1].at \in {"post", "exited"}

NoSessions == [active |-> 0, total |-> 0]

\* C22 as stated: on a host with an API key and no sessions file, the
\* collector builds a payload with sessions {active: 0, total: 0} and goes
\* on to submit it
C22_AsStated ==
  (Collected /\ requests[1].env.key /\ requests[1].env.sessions.state = "absent") =>
     /\ ~requests[1].payload.thrown
     /\ requests[1].payload.sessions = NoSessions

\* C22 where it holds: when the OpenClaw directory exists (reporter.ts) or
\* in the universal collector, a missing sessions file gives sessions
\* {active: 0, total: 0}; reporter.ts on a host without the directory
\* throws before it collects anything and exits with status 1
C22_NoSessionsFile ==
  (Collected /\ requests[1].env.key /\ requests[1].env.sessions.state = "absent") =>
     IF requests[1].env.dir \/ requests[1].env.variant = "universal"
     THEN ~requests[1].payload.thrown /\ requests[1].payload.sessions = NoSessions
     ELSE requests[1].payload.thrown /\ requests[1].exit = 1
            /\ requests[1].attempts = 0

\* reporter.ts ran with an API key on a host without OpenClaw directory
\* and exited with status 1 without a submission
C22_Witness ==
  /\ requests[1].at = "exited"
  /\ requests[1].env.variant = "reporter"
  /\ requests[1].env.key
  /\ ~requests[1].env.dir
  /\ requests[1].env.sessions.state = "absent"
  /\ requests[1].exit = 1
  /\ requests[1].attempts = 0

\* The sub-collections, what stands for a failure of each on a host, and
\* the parts of the payload each one fills
Sections == {"sessions", "cron", "crontab", "endpoints", "processes", "custom"}

Fails(env, section) ==
  IF section \in {"sessions", "cron"} THEN env[section].state = "unparsable"
  ELSE IF section = "crontab" THEN env.crontab = "failed"
  ELSE env[section] = "error"

\* the host with nothing to collect for the section
Without(env, section) ==
  IF section \in {"sessions", "cron"} THEN [env EXCEPT ![section] = NoFile]
  ELSE [env EXCEPT ![section] = "off"]

PartsOf(section) ==
  IF section = "sessions" THEN {"sessions", "costs", "tokens", "modelBreakdown"}
  ELSE IF section \in {"cron", "crontab"} THEN {"crons"}
  ELSE {section}

\* on host env a failure of the section leaves every other part of the
\* payload as it is without that section, and the sessions and crons parts
\* at their zero defaults
Independent(env, section) ==
  LET p == PayloadOn(env)
      q == PayloadOn(Without(env, section))
  IN /\ ~p.thrown
     /\ \A part \in DOMAIN p \ PartsOf(section) : p[part] = q[part]
     /\ section \in {"sessions", "cron", "crontab"} =>
          \A part \in DOMAIN p \cap PartsOf(section) : p[part] = q[part]

\* the hosts on which main gets as far as its sub-collections
Collects(env) == env.key /\ (env.dir \/ env.variant = "universal")

\* C23 as stated, for both collectors: a failure in one sub-collection
\* leaves the values of the others unaffected, degrades only the failing
\* section to its default, and the run goes on to the submission
C23_AsStated ==
  (Collected /\ Collects(requests[1].env)) =>
     \A section \in Sections :
       Fails(requests[1].env, section) =>
         Independent(requests[1].env, section) /\ requests[1].at \in {"post", "exited"}
           /\ (requests[1].at = "exited" => requests[1].attempts = 1)

\* C23 where it holds: everywhere but for an unparsable sessions.json in
\* the universal collector, whose single try block then skips cron.json
C23_IndependentButOne ==
  (Collected /\ Collects(requests[1].env)) =>
     \A section \in Sections :
       (Fails(requests[1].env, section)
          /\ ~(requests[1].env.variant = "universal" /\ section = "sessions")) =>
         Independent(requests[1].env, section)

\* the universal collector found sessions.json unparsable and reported no
\* cron jobs although cron.json lists two
C23_Witness ==
  /\ requests[1].at = "exited"
  /\ requests[1].attempts = 1
  /\ requests[1].env.variant = "universal"
  /\ requests[1].env.sessions.state = "unparsable"
  /\ requests[1].env.cron = CronFile(2)
  /\ requests[1].payload.crons = [enabled |-> 0, total |-> 0]

\* C24: every run ends, with at most one submission attempt; an attempt
\* that finds the backend unreachable or is answered with another status
\* than 2xx is the last step of the run and exits with a non-zero status,
\* and one answered 2xx exits with status 0
C24_OneAttempt ==
  /\ requests[1].at = "main" ~> requests[1].at = "exited"
  /\ [](Collected => requests[1].attempts <= 1)
  /\ [](requests[1].at = "exited" => requests[1].exit # Null)
  /\ [][\A outcome \in {"stored", "refused", "unreachable"} :
         (Collected /\ requests[1].env.key /\ CollectorPost(outcome)) =>
            /\ requests'[1].at = "exited"
            /\ requests'[1].attempts = 1
            /\ outcome = "stored" => requests'[1].exit = 0
            /\ outcome # "stored" => requests'[1].exit # 0]_vars
  /\ [][requests[1].at = "exited" => UNCHANGED vars]_vars

\* a run whose only submission failed has exited with status 1 and left
\* no reading
C24_Witness ==
  /\ requests[1].at = "exited"
  /\ requests[1].attempts = 1
  /\ requests[1].exit = 1
  /\ readings = <<>>

\* the run's reading was stored and its payload carries token counts
StoredWithTokens ==
  /\ Collected
  /\ requests[1].row # 0
  /\ "tokens" \in DOMAIN requests[1].payload

\* C29 as stated: the stored tokens_input and tokens_output of a collector
\* payload with token counts are the input and output counts it reported,
\* and the dashboard query returns them
C29_AsStated ==
  StoredWithTokens =>
    LET row == readings[requests[1].row]
        tokens == requests[1].payload.tokens
    IN /\ row.tokens_input = tokens.inputTokens
       /\ row.tokens_output = tokens.outputTokens
       /\ DashboardTokens(row) = [given |-> TRUE, input |-> tokens.inputTokens,
                                   output |-> tokens.outputTokens]

\* What the code does instead: the handler reads tokens.input and
\* tokens.output, which no collector payload has, so both columns are NULL
\* and the dashboard answer has no tokens
C29_TokensDropped ==
  (Collected /\ requests[1].row # 0) =>
    /\ readings[requests[1].row].tokens_input = Null
    /\ readings[requests[1].row].tokens_output = Null
    /\ ~DashboardTokens(readings[requests[1].row]).given

\* reporter.ts reported one input and two output tokens, its reading was
\* stored, and the stored token columns are NULL
C29_Witness ==
  /\ StoredWithTokens
  /\ requests[1].env.variant = "reporter"
  /\ requests[1].payload.tokens.inputTokens = 1
  /\ requests[1].payload.tokens.outputTokens = 2
  /\ readings[requests[1].row].tokens_input = Null
  /\ readings[requests[1].row].tokens_output = Null

\* reporter.ts has built a payload from sessions updated today
Priced ==
  /\ Collected
  /\ requests[1].env.variant = "reporter"
  /\ ~requests[1].payload.thrown
  /\ requests[1].payload.modelBreakdown # <<>>

\* the models used by the most sessions updated today
MostUsed(modelBreakdown) ==
  {modelBreakdown[i].model : i \in
     {i \in 1..Len(modelBreakdown) :
        \A j \in 1..Len(modelBreakdown) :
          modelBreakdown[j].count <= modelBreakdown[i].count}}

\* the costs of the payload are its token counts at these rates
CostsAt(payload, rates) ==
  LET today == payload.tokens.inputTokens * rates.input
                 + payload.tokens.outputTokens * rates.output
  IN payload.costs = [today |-> today, month |-> today * requests[1].env.day]

\* C30 as stated: the costs are those of a model used by the most sessions
\* of today, at the rates of the key equal to its name when there is one,
\* and at the default rates when its name contains no key
C30_AsStated ==
  Priced =>
    \E model \in MostUsed(requests[1].payload.modelBreakdown) :
      CostsAt(requests[1].payload, OwnKeyPricingOf(model))

\* C30 as the code prices: the rates are those of the first key of the
\* table, in its order, that the name contains, so gpt-4o-mini gets the
\* rates of gpt-4o; a name containing no key gets the default rates
C30_FirstContainedKey ==
  Priced =>
    \E model \in MostUsed(requests[1].payload.modelBreakdown) :
      /\ CostsAt(requests[1].payload, PricingOf(model))
      /\ (\A i \in 1..Len(MODEL_PRICING) : ~includes(model, MODEL_PRICING[i].key)) =>
           CostsAt(requests[1].payload, MODEL_PRICING[Len(MODEL_PRICING)])
      /\ includes(model, <<"gpt", "4o">>) =>
           CostsAt(requests[1].payload, MODEL_PRICING[5])

\* every session of today used gpt-4o-mini and the payload's costs are
\* those of one input and two output tokens at the gpt-4o rates
C30_Witness ==
  /\ Priced
  /\ requests[1].env.sessions = SessionsFile(<<Session(TRUE, TRUE, <<"gpt", "4o", "mini">>)>>)
  /\ requests[1].payload.modelBreakdown = <<[model |-> <<"gpt", "4o", "mini">>, count |-> 1]>>
  /\ requests[1].payload.costs.today = 250 + 2 * 1000

----------------------------------------------------------------------------
(* Workspace isolation: the catch-all route of part_011 ("scoped") and its
   first version of part_010 ("unscoped"), whose readings table has no
   workspace column *)

\* POST /v1/report of part_010: every request with a Bearer header inserts
\* its payload. workspace_id of the row is not a column of that table: it
\* records the workspace whose key the request carried and no query of
\* part_010 reads it.
PostReportUnscoped(authHeader, body) ==
  /\ Len(readings) < MaxReadings
  /\ UNCHANGED <<now, workspaces, invites, posted, requests>>
  /\ IF ~startsWithBearer(authHeader)
     THEN Respond("report", 401, "Missing API key", NoWorkspace, "none")
            /\ UNCHANGED readings
     ELSE /\ readings' = InsertReading(readings,
                            ReadingRow(getWorkspaceFromKey(authHeader.key), body))
          /\ Respond("report", 200, "", getWorkspaceFromKey(authHeader.key), "none")

\* GET /v1/dashboard of part_010: SELECT * FROM readings ORDER BY timestamp
\* DESC LIMIT 1, whatever the key
GetDashboardUnscoped(authHeader) ==
  /\ UNCHANGED <<now, workspaces, readings, invites, posted, requests>>
  /\ IF ~startsWithBearer(authHeader)
     THEN Respond("dashboard", 401, "Missing API key", NoWorkspace, "none")
     ELSE IF readings = <<>>
     THEN RespondWith("dashboard", getWorkspaceFromKey(authHeader.key),
            [latest |-> 0, reportedAt |-> Null, online |-> NullStr,
             gatewayOnline |-> "false"])
     ELSE \E i \in FirstByTimestampDesc(readings, 1..Len(readings)) :
            RespondWith("dashboard", getWorkspaceFromKey(authHeader.key),
              [latest |-> i, reportedAt |-> readings[i].timestamp,
               online |-> readings[i].gateway_online,
               gatewayOnline |-> IF now - readings[i].timestamp < 10
                                THEN "true" ELSE "false"])

\* Which version of the route is deployed is fixed from the start; both
\* workspaces have a downtime alert and a webhook
InitIsolation ==
  /\ now = 0
  /\ workspaces = [w \in WorkspaceIds |->
                     WorkspaceRow(w, w, Null, ShortDowntime, WebhookUrl)]
  /\ readings = <<>>
  /\ invites = <<>>
  /\ resp = Idle
  /\ posted = <<>>
  /\ \E version \in {"scoped", "unscoped"} :
       requests = [NoRequests EXCEPT ![1] = [at |-> version]]

NextIsolation ==
  \/ TickBy(ShortDowntime, 2 * ShortDowntime)
  \/ /\ requests[1].at = "scoped"
     /\ \E w \in WorkspaceIds :
          \/ \E online \in {"true", "false"} :
               PostReport(ValidAuth(w), Payload(Null, online, Null), "none")
          \/ GetDashboard(ValidAuth(w), NoUser, Null)
          \/ GetHistory(ValidAuth(w), NoUser, Null, NoParam)
          \/ GetStatus(SlugOf(w))
  \/ /\ requests[1].at = "unscoped"
     /\ \E w \in WorkspaceIds :
          \/ \E online \in {"true", "false"} :
               PostReportUnscoped(ValidAuth(w), Payload(Null, online, Null))
          \/ GetDashboardUnscoped(ValidAuth(w))

SpecIsolation == InitIsolation /\ [][NextIsolation]_vars

\* the store with the readings of workspace w only
OnlyOf(rs, w) == SelectSeq(rs, LAMBDA r : r.workspace_id = w)

\* the rows an answer shows
RowsShown(answer) ==
  IF answer.op = "dashboard" THEN {answer.body.latest} \ {0}
  ELSE IF answer.op = "history"
  THEN {answer.body.history[k] : k \in 1..Len(answer.body.history)}
  ELSE IF answer.op = "status"
  THEN answer.body.incidents
  ELSE {}

\* The step serves a request of workspace resp'.ws and keeps to it: a
\* report leaves the readings of every other workspace as they are and
\* evaluates its downtime alert (part_010 has none) as on a store holding
\* its own workspace's readings only; a dashboard, history or status answer shows only
\* readings submitted with the workspace's own key
KeepsToWorkspace ==
  /\ resp'.op = "report" =>
       /\ \A w \in WorkspaceIds \ {resp'.ws} :
            /\ RowsOf(readings', w) = RowsOf(readings, w)
            /\ \A i \in RowsOf(readings, w) : readings'[i] = readings[i]
       /\ \A k \in 1..Len(posted') : posted'[k].ws = resp'.ws
       /\ requests[1].at = "scoped" =>
            posted' \in DowntimePosts(OnlyOf(readings', resp'.ws), workspaces[resp'.ws])
  /\ resp'.op \in {"dashboard", "history", "status"} =>
       \A i \in RowsShown(resp') : readings[i].workspace_id = resp'.ws

\* C25 as stated, for both versions of the route: every request served
\* for a workspace keeps to the readings submitted with that workspace's
\* key
C25_AsStated ==
  [][(Served /\ resp'.status = 200) => KeepsToWorkspace]_vars

\* C25 where it holds: the route of part_011, which scopes every query by
\* the workspace id
C25_ScopedRoute ==
  [][(Served /\ resp'.status = 200 /\ requests[1].at = "scoped") => KeepsToWorkspace]_vars

\* the unscoped route answered the dashboard query made with the key of
\* workspace 2 with a reading submitted with the key of workspace 1
C25_Witness ==
  /\ requests[1].at = "unscoped"
  /\ resp.op = "dashboard"
  /\ resp.ws = 2
  /\ resp.body.latest # 0
  /\ resp.body.latest <= Len(readings)
  /\ readings[resp.body.latest].workspace_id = 1

----------------------------------------------------------------------------
\* Claims about the report handler's answers and the store, on Spec

\* C26 as stated: a report answered with another status than 200 inserted
\* no reading
C26_AsStated ==
  [][(Served /\ resp'.op = "report" /\ resp'.status # 200) => readings' = readings]_vars

\* C26 as the code behaves: a report answered with an error inserted no
\* reading unless the error came after the INSERT, from the window query of
\* the downtime check; a report answered 200 inserted exactly one
C26_InsertedUnlessLateFailure ==
  [][(Served /\ resp'.op = "report") =>
       /\ (resp'.status # 200 /\ resp'.fault # "window") => readings' = readings
       /\ (resp'.status # 200 /\ resp'.fault = "window") =>
            /\ resp'.status = 400
            /\ Len(readings') = Len(readings) + 1
       /\ resp'.status = 200 => Len(readings') = Len(readings) + 1]_vars

\* a report of workspace 1 was answered 400 after the window query failed,
\* and its reading is in the store
C26_Witness ==
  /\ resp.op = "report"
  /\ resp.status = 400
  /\ resp.fault = "window"
  /\ RowsOf(readings, 1) # {}
  /\ readings[Len(readings)].workspace_id = 1

----------------------------------------------------------------------------
\* Concurrent reports, on SpecReports

\* requests r and q are two reports of the same workspace, both past
\* their INSERT
Concurrent(r, q) ==
  /\ r # q
  /\ requests[r].at # "idle" /\ requests[q].at # "idle"
  /\ requests[r].ws = requests[q].ws
  /\ requests[r].row # 0 /\ requests[q].row # 0

----------------------------------------------------------------------------
(* The key-value variant of the route (part_008): the reports of one API
   key under the keys KEY_LATEST and KEY_HISTORY. The variable readings
   holds the two keys' values, a report is known by the number of its
   receivedAt instant, and requests holds the POST requests in flight. *)

MAX_HISTORY == 288

\* The store after n reports served one after the other
InitKv ==
  /\ \E n \in {0, MAX_HISTORY - 1, MAX_HISTORY} :
       /\ now = n
       /\ readings = [latest |-> IF n = 0 THEN Null ELSE n,
                      history |-> [i \in 1..n |-> n + 1 - i],
                      ttl |-> [latest |-> n # 0, history |-> n # 0]]
  /\ workspaces = [w \in WorkspaceIds |-> WorkspaceRow(w, w, Null, Null, NullStr)]
  /\ invites = <<>>
  /\ resp = Idle
  /\ posted = <<>>
  /\ requests = NoRequests

\* POST /v1/report up to `const report = { payload, receivedAt }`
KvReportBegin(r) ==
  /\ requests[r].at = "idle"
  /\ now' = now + 1
  /\ requests' = [requests EXCEPT ![r] = [at |-> "set", report |-> now + 1]]
  /\ UNCHANGED <<workspaces, readings, invites, resp, posted>>

\* The next awaited statement of request r: redis.set, redis.lpush,
\* redis.ltrim, and the two redis.expire with the response after them
KvReportStep(r) ==
  /\ requests[r].at \in {"set", "lpush", "ltrim", "expire"}
  /\ UNCHANGED <<now, workspaces, invites, posted>>
  /\ LET req == requests[r]
         Goes(at) == requests' = [requests EXCEPT ![r].at = at]
     IN IF req.at = "set"
        THEN /\ readings' = [readings EXCEPT !.latest = req.report,
                                             !.ttl.latest = FALSE]
             /\ Goes("lpush") /\ UNCHANGED resp
        ELSE IF req.at = "lpush"
        THEN /\ readings' = [readings EXCEPT !.history = <<req.report>> \o @,
                                             !.ttl.history = (@ /\ readings.history # <<>>)]
             /\ Goes("ltrim") /\ UNCHANGED resp
        ELSE IF req.at = "ltrim"
        THEN /\ readings' = [readings EXCEPT
                               !.history = SubSeq(@, 1, Min(Len(@), MAX_HISTORY))]
             /\ Goes("expire") /\ UNCHANGED resp
        ELSE /\ readings' = [readings EXCEPT !.ttl = [latest |-> TRUE, history |-> TRUE]]
             /\ Respond("report", 200, "", NoWorkspace, "none")
             /\ Goes("done")

\* GET /v1/dashboard (redis.get of KEY_LATEST) and GET /v1/history
\* (redis.lrange 0 -1 of KEY_HISTORY)
KvGet(path) ==
  /\ UNCHANGED <<now, workspaces, readings, invites, posted, requests>>
  /\ IF path = "dashboard"
     THEN RespondWith("dashboard", NoWorkspace,
            [latest |-> readings.latest, reportedAt |-> readings.latest])
     ELSE RespondWith("history", NoWorkspace, [history |-> readings.history])

NextKv ==
  \/ \E r \in ReqIds :
       /\ \A q \in 1..(r - 1) : requests[q].at # "idle"
       /\ KvReportBegin(r)
  \/ \E r \in ReqIds : KvReportStep(r)
  \/ \E path \in {"dashboard", "history"} : KvGet(path)

SpecKv == InitKv /\ [][NextKv]_vars

\* no report is being served
Quiescent == \A r \in ReqIds : requests[r].at \in {"idle", "done"}

NewestFirst(history) ==
  \A i \in 1..Len(history) : \A j \in 1..Len(history) :
    i < j => history[i] > history[j]

\* C28 as stated: once the submissions are served, whatever their
\* interleaving, the history list has at most 288 entries, newest first,
\* and its first entry is the latest report the dashboard returns
C28_AsStated ==
  Quiescent =>
    /\ Len(readings.history) <= MAX_HISTORY
    /\ NewestFirst(readings.history)
    /\ readings.history # <<>> => readings.history[1] = readings.latest
    /\ readings.history = <<>> => readings.latest = Null

\* C28 where it holds: the list is capped once the submissions are served
\* and never longer than the cap by more than the requests between their
\* lpush and their ltrim, and both keys hold the same reports in their
\* first places, a report of every request served being in the list
C28_CappedList ==
  /\ Quiescent => Len(readings.history) <= MAX_HISTORY
  /\ Len(readings.history)
       <= MAX_HISTORY + Cardinality({r \in ReqIds : requests[r].at = "ltrim"})
  /\ (Quiescent /\ readings.history # <<>>) =>
       \E i \in 1..Min(Len(readings.history), MaxRequests) :
         readings.history[i] = readings.latest
  /\ (Quiescent /\ \A r \in ReqIds : requests[r].at = "idle") =>
       /\ NewestFirst(readings.history)
       /\ readings.history # <<>> => readings.history[1] = readings.latest

\* two submissions were served interleaved: the list is full, its first
\* entry is the first request's report and the latest report is the second
\* request's
C28_Witness ==
  /\ \A r \in 1..2 : requests[r].at = "done"
  /\ Len(readings.history) = MAX_HISTORY
  /\ readings.history[1] = requests[1].report
  /\ readings.latest = requests[2].report
  /\ requests[1].report < requests[2].report

=============================================================================
